---------------------------- MODULE Spec2Model ----------------------------
(***************************************************************************)
(* A model of the clipslot synchronisation engine.                         *)
(*                                                                         *)
(*   SpecClient : the client's Offline Queue and the Sync Manager's        *)
(*                notify / send-or-queue / connect_ws / flush machinery    *)
(*                (src-tauri/src/sync/offline_queue.rs, manager.rs,        *)
(*                ws_client.rs).                                           *)
(*   SpecRecon  : the slot reconciler run against the server's slot table  *)
(*                (src-tauri/src/sync/slot_sync.rs,                        *)
(*                clipslot-server/src/routes/sync.rs).                     *)
(*   SpecServer : the relay server's per-user broadcast broker and its     *)
(*                history table (clipslot-server/src/routes/ws.rs,         *)
(*                sync.rs).                                                *)
(*                                                                         *)
(* Every specification ranges over all the variables; the variables of the *)
(* other components keep their initial value.                              *)
(***************************************************************************)
EXTENDS Integers, Sequences, FiniteSets, TLC

VARIABLES
    \* ---- client: Sync Manager (manager.rs:21-28) ------------------------
    auth,            \* SyncManager.auth: None or the account logged in
    ws,              \* SyncManager.ws: None or "ws" (a WsClient handle)
    status,          \* SyncManager.status
    offline_queue,   \* OfflineQueue.queue
    history_sync_enabled, \* the setting read by notify_history_push
    \* ---- client: the WsClient of the current connection (ws_client.rs) --
    writerAlive,     \* the writer task runs and owns outgoing_rx
    outgoing,        \* the mpsc channel outgoing_tx -> outgoing_rx
    serverRecv,      \* text frames the writer has put on the socket
    \* ---- client: connect_ws / flush_offline_queue in progress -----------
    pc,              \* position of the connect_ws task
    messages,        \* flush_offline_queue's drained `messages`
    idx,             \* index of the next element of `messages` to send
    \* ---- client: local store -------------------------------------------
    slots,           \* local slots table: slot -> [content, updated_at]
    clock,           \* wall clock, in ticks (TicksPerMs ticks per ms)
    items,           \* local clipboard_items rows
    history_limit,   \* the value of app_config's history_limit row
    lastInsert,      \* the last insertion of a history item and its outcome
    \* ---- client: history variables (not held by the program) -------------
    nops,            \* number of local changes made so far
    qlog,            \* what was enqueued since the last drain, in order
    drainLog,        \* qlog as it was at the last drain
    flushSent,       \* messages the current flush handed to the connection
    flushFailedAt,   \* 0, or the index at which the last flush's send failed
    connGen,         \* number of connections opened so far
    sendFailed,      \* a WsClient::send failed since connect_ws was last called
    \* ---- client: incoming handlers and persisted settings ----------------
    handlers,        \* the incoming handler tasks alive: the connection of each
    persisted,       \* the auth_* rows of app_config: key -> value
    boots,           \* number of restarts of the application so far
    \* ---- client: slot reconciler ---------------------------------------
    lastSync,        \* what the last perform_full_slot_sync did and returned
    \* ---- relay server ---------------------------------------------------
    user_channels,   \* AppState.user_channels: the keys holding a sender
    conns,           \* WebSocket connections: id -> connection record
    synced_history,  \* server synced_history rows
    synced_slots,    \* server synced_slots: <<user, slot>> -> row or NoRow
    lastResp,        \* the last history push handled and what it answered
    npub,            \* number of requests handled so far
    \* ---- relay server: link codes (routes/key_exchange.rs) --------------
    link_codes,      \* AppState.link_codes: code -> (encrypted_key, created_at)
    lnow,            \* the server's monotonic clock (Instant::now), in minutes
    lastLink,        \* the last link-code request and what it answered
    nlink,           \* number of link-code requests handled so far
    codeLog,         \* per code: what happened since it was last generated
    \* ---- client: crypto engine (crypto/cipher.rs) -------------------------
    master_key,      \* CryptoEngine.cipher: the key the engine was made with
    plaintext,       \* the plaintext last given to encrypt
    stored,          \* a stored value: the last output of encrypt, or a legacy one
    opened,          \* what the last decrypt returned
    \* ---- client: local store, the slots table and the calls made ---------
    slot_rows,       \* local slots rows: slot -> [item_id, updated_at]
    lastCall,        \* the last call of the local store and what it returned
    \* ---- client: history reconciler ------------------------------------
    lastHistSync,    \* what the last perform_initial_history_sync did
    \* ---- client: the incoming channel of the connection (ws_client.rs) ---
    incoming,        \* the handler's receiver of WsClient.incoming_tx
    \* ---- history of the session: who made what ---------------------------
    owners,          \* if kept: the account logged in when a change was queued,
                     \* and the account whose token the last connect_ws used
    \* ---- client: the tasks of the connections made (ws_client.rs) ---------
    tasks,           \* the connections whose writer task / reader task runs
    pc2              \* where a second caller of connect_ws stands

clientVars == <<auth, ws, status, offline_queue, history_sync_enabled,
                writerAlive, outgoing, serverRecv, pc, messages, idx,
                nops, qlog, drainLog, flushSent, flushFailedAt, connGen,
                sendFailed, handlers, persisted, boots>>
histVars   == <<items, history_limit, lastInsert>>
localVars  == <<slots, clock, histVars>>
reconVars  == <<lastSync>>
serverVars == <<user_channels, conns, synced_history, synced_slots, lastResp, npub>>
linkVars == <<link_codes, lnow, lastLink, nlink, codeLog>>
cryptoVars == <<master_key, plaintext, stored, opened>>
vaultVars  == <<slot_rows, lastCall>>
deviceVars == <<cryptoVars, vaultVars, lastHistSync, incoming, owners, tasks, pc2>>
vars == <<clientVars, localVars, reconVars, serverVars, linkVars, deviceVars>>

None == "none"

\* no connection made yet: no writer task and no reader task
NoTasks == [writers |-> {}, readers |-> {}, dropped |-> {}]

----------------------------------------------------------------------------
(* Bounds of the model.                                                    *)

\* slot numbers 1..MaxSlot (the code iterates 1..=10, slot_sync.rs:20)
MaxSlot == 2
\* local changes (slot saves and history captures) in one behaviour
MaxOps == 2
\* the latest instant, in ticks, of the timestamps the reconciler meets
MaxClock == 2
\* connect_ws calls that open a connection in one behaviour
MaxConnects == 1
\* ticks per millisecond: the server's timestamps are finer than the
\* milliseconds the client compares (slot_sync.rs:95-99)
TicksPerMs == 2

\* slot and history requests the server handles in one behaviour
MaxRequests == 2
\* frames a broadcast receiver retains: broadcast::channel(100) in the code
\* (routes/ws.rs:50), scaled down so that a subscriber can fall behind
\* within MaxRequests publishes
ChannelCapacity == 1

\* the server accepts slot numbers 1..=10 (routes/sync.rs:93, ws.rs:149)
SlotLimit == 10

SlotNumbers == 1..MaxSlot
\* ciphertexts ("ENC:" strings): every encryption draws a fresh nonce
\* (crypto/cipher.rs), so the k-th encryption yields a ciphertext of its own
CipherNames == <<"ENC:1", "ENC:2", "ENC:3", "ENC:4", "ENC:5", "ENC:6", "ENC:7", "ENC:8",
                 "ENC:9", "ENC:10", "ENC:11", "ENC:12">>
Encrypted(k) == CipherNames[k]
\* the content hash a device captures in the client specification
ClientHashes == {"hash_a"}
Accounts == {"A"}
\* no change queued and no connect_ws called yet; the accounts are recorded
\* only in the specification of the accounts (SpecAccounts)
NoOwners == [kept |-> FALSE, change |-> [k \in 1..MaxOps |-> None], conn |-> None]

----------------------------------------------------------------------------
(* Conversions.                                                            *)

\* BASE64.encode(bytes): the transport form of a ciphertext
B64Encode(s) == [b64 |-> TRUE, data |-> s]
\* BASE64.decode(blob): Ok(bytes) or Err
B64Decode(blob) ==
    IF blob.b64 THEN [ok |-> TRUE, bytes |-> blob.data] ELSE [ok |-> FALSE, bytes |-> None]

\* chrono::Utc::now().timestamp_millis()
NowMs == clock \div TicksPerMs
\* parse_timestamp: an RFC 3339 instant (here: ticks) to epoch milliseconds
parse_timestamp(ts) == ts \div TicksPerMs

----------------------------------------------------------------------------
(* Crypto envelope (crypto/cipher.rs).  Strings and byte strings are       *)
(* sequences of code units; the text of the model is ASCII.                *)

\* ENC_PREFIX (crypto/cipher.rs:8): "ENC:"
ENC_PREFIX == <<69, 78, 67, 58>>

\* str::starts_with
starts_with(str, prefix) ==
    Len(str) >= Len(prefix) /\ SubSeq(str, 1, Len(prefix)) = prefix

\* the length of the nonce, in bytes (crypto/cipher.rs:22, 50, 54)
NonceLen == 12

\* the keys an engine can be made with, and the nonces fill_bytes draws here
MasterKeys == {1, 2}
Nonces == {[i \in 1..NonceLen |-> b] : b \in {0, 1, 2}}

\* Result values: Ok(value) and Err
Ok(v) == [ok |-> TRUE, value |-> v]
Err == [ok |-> FALSE, value |-> <<>>]

\* BASE64.encode / BASE64.decode on byte strings: every byte becomes a
\* letter of the alphabet, which is disjoint from the text of the model;
\* decode fails on a letter outside the alphabet
Base64Letter == 256
BASE64_encode(bytes) == [i \in 1..Len(bytes) |-> Base64Letter + bytes[i]]
BASE64_decode(str) ==
    IF \A i \in 1..Len(str) : str[i] >= Base64Letter
    THEN Ok([i \in 1..Len(str) |-> str[i] - Base64Letter])
    ELSE Err

\* AES-256-GCM as an ideal AEAD: the ciphertext is the plaintext under a
\* pad of the key and the nonce, followed by the tag of the key and the
\* nonce (one byte for the 16 of the code); opening under another key or
\* nonce fails on the tag
Pad(k, nonce) == (31 * k + nonce[1]) % 256
Tag(k, nonce) == (16 * k + nonce[1]) % 256
aead_encrypt(k, nonce, bytes) ==
    [i \in 1..Len(bytes) |-> (bytes[i] + Pad(k, nonce)) % 256] \o <<Tag(k, nonce)>>
aead_decrypt(k, nonce, ciphertext) ==
    IF Len(ciphertext) >= 1 /\ ciphertext[Len(ciphertext)] = Tag(k, nonce)
    THEN Ok([i \in 1..(Len(ciphertext) - 1) |->
                (ciphertext[i] + 256 - Pad(k, nonce)) % 256])
    ELSE Err

\* String::from_utf8: bytes of ASCII text are valid, a byte above 127 is not
\* valid on its own
from_utf8(bytes) ==
    IF \A i \in 1..Len(bytes) : bytes[i] < 128 THEN Ok(bytes) ELSE Err

\* a plausible bug: the output of encrypt lacks the tag "ENC:"
encrypt_untagged(k, nonce_bytes, text) ==
    Ok(BASE64_encode(nonce_bytes \o aead_encrypt(k, nonce_bytes, text)))

\* CryptoEngine::encrypt (crypto/cipher.rs:21-36) with the nonce it drew:
\* "ENC:" + base64(nonce + ciphertext)
encrypt(k, nonce_bytes, text) ==
    LET ciphertext == aead_encrypt(k, nonce_bytes, text)
        combined   == nonce_bytes \o ciphertext
    IN  Ok(ENC_PREFIX \o BASE64_encode(combined))

\* CryptoEngine::decrypt (crypto/cipher.rs:40-63)
decrypt(k, value) ==
    IF ~starts_with(value, ENC_PREFIX) THEN Ok(value)
    ELSE LET encoded  == SubSeq(value, Len(ENC_PREFIX) + 1, Len(value))
             combined == BASE64_decode(encoded)
         IN  IF ~combined.ok THEN Err
             ELSE IF Len(combined.value) < NonceLen THEN Err
             ELSE LET nonce_bytes == SubSeq(combined.value, 1, NonceLen)
                      ciphertext  == SubSeq(combined.value, NonceLen + 1,
                                            Len(combined.value))
                      opened_     == aead_decrypt(k, nonce_bytes, ciphertext)
                  IN  IF ~opened_.ok THEN Err ELSE from_utf8(opened_.value)

\* the plaintexts of the model: "", "a", "ab", "EN" and "ENC:a"
Plaintexts == {<<>>, <<97>>, <<97, 98>>, <<69, 78>>, <<69, 78, 67, 58, 97>>}
\* values stored before encryption was introduced: "", "a", "EN" and "ENC"
LegacyValues == {<<>>, <<97>>, <<69, 78>>, <<69, 78, 67>>}
NoResult == [ok |-> FALSE, value |-> <<0>>]

\* one call of CryptoEngine::encrypt
Encrypt(text, nonce_bytes) ==
    /\ plaintext' = text
    /\ stored' = encrypt(master_key, nonce_bytes, text).value
    /\ opened' = NoResult
    /\ UNCHANGED master_key
    /\ UNCHANGED <<clientVars, localVars, reconVars, serverVars, linkVars, vaultVars,
                   lastHistSync, incoming, owners, tasks, pc2>>

\* one call of CryptoEngine::decrypt on the stored value
Decrypt ==
    /\ opened' = decrypt(master_key, stored)
    /\ UNCHANGED <<master_key, plaintext, stored>>
    /\ UNCHANGED <<clientVars, localVars, reconVars, serverVars, linkVars, vaultVars,
                   lastHistSync, incoming, owners, tasks, pc2>>

\* a value written before encryption was introduced is read
LoadLegacy(value) ==
    /\ stored' = value
    /\ plaintext' = value
    /\ opened' = NoResult
    /\ UNCHANGED master_key
    /\ UNCHANGED <<clientVars, localVars, reconVars, serverVars, linkVars, vaultVars,
                   lastHistSync, incoming, owners, tasks, pc2>>

\* redeem_link_code stores the key of another device in the keychain
\* (sync/key_exchange.rs:15-38) and the application restarts: the engine is
\* made with that key (lib.rs:363-365)
ImportKey(k) ==
    /\ master_key' = k
    /\ opened' = NoResult
    /\ UNCHANGED <<plaintext, stored>>
    /\ UNCHANGED <<clientVars, localVars, reconVars, serverVars, linkVars, vaultVars,
                   lastHistSync, incoming, owners, tasks, pc2>>

----------------------------------------------------------------------------
(* Relay messages (sync/types.rs:79-112).                                  *)

SlotUpdate(n, blob, ts) ==
    [type |-> "slot_update", slot_number |-> n, encrypted_blob |-> blob, timestamp |-> ts]
HistoryPush(id, blob, hash) ==
    [type |-> "history_push", id |-> id, encrypted_blob |-> blob, content_hash |-> hash]

IsSlotUpdateFor(m, n) == m.type = "slot_update" /\ m.slot_number = n

----------------------------------------------------------------------------
(* Offline Queue (sync/offline_queue.rs).                                  *)

\* a plausible bug: the dedup step is missing
enqueue_nodedup(q, msg) == Append(q, msg)

\* a plausible bug: an enqueue of a slot update keeps the entry already
\* queued for the slot and discards the new one
enqueue_keepfirst(q, msg) ==
    IF msg.type = "slot_update" /\ \E i \in 1..Len(q) : IsSlotUpdateFor(q[i], msg.slot_number)
    THEN q
    ELSE Append(q, msg)

\* OfflineQueue::enqueue: retain everything but slot updates of the same
\* slot, then push_back
enqueue(q, msg) ==
    LET kept == IF msg.type = "slot_update"
                THEN SelectSeq(q, LAMBDA e : ~IsSlotUpdateFor(e, msg.slot_number))
                ELSE q
    IN  Append(kept, msg)

\* a plausible bug: drain hands out all but the last message
drain_short(q) ==
    [returned |-> IF q = <<>> THEN <<>> ELSE SubSeq(q, 1, Len(q) - 1), left |-> <<>>]

\* OfflineQueue::drain: q.drain(..).collect() returns every message in
\* queue order and leaves the queue empty
drain(q) == [returned |-> q, left |-> <<>>]

----------------------------------------------------------------------------
(* Sync Manager, client side (sync/manager.rs, sync/ws_client.rs).         *)

\* SyncManager::send_or_queue (manager.rs:425-437).  WsClient::send is Ok
\* iff the writer task still owns outgoing_rx (ws_client.rs:102-108); the
\* channel's capacity of 64 is never reached within MaxOps messages
send_or_queue(msg) ==
    IF ws # None
    THEN IF writerAlive
         THEN /\ outgoing' = Append(outgoing, [msg |-> msg, via |-> "direct"])
              /\ UNCHANGED <<offline_queue, qlog, sendFailed>>
         ELSE /\ offline_queue' = enqueue(offline_queue, msg)
              /\ qlog' = Append(qlog, msg)
              /\ sendFailed' = TRUE
              /\ UNCHANGED outgoing
    ELSE /\ offline_queue' = enqueue(offline_queue, msg)
         /\ qlog' = Append(qlog, msg)
         /\ UNCHANGED <<outgoing, sendFailed>>

\* WsClient::disconnect as seen by the holder of the handle: the writer
\* task closes the sink and exits, dropping what is left in the channel
Disconnected(hadWs) ==
    IF hadWs
    THEN /\ writerAlive' = FALSE
         /\ outgoing' = <<>>
         /\ tasks' = [tasks EXCEPT !.writers = @ \ {connGen}]
    ELSE UNCHANGED <<writerAlive, outgoing, tasks>>

\* the accounts a session can belong to, and the AuthState of each
\* (manager.rs:13-19); user_id and device_id are Uuids
SessionAccounts == {"A", "B"}
Uuid(s) == <<"uuid", s>>
AuthStates ==
    [A |-> [token |-> "jwt:A", user_id |-> Uuid("u1"), device_id |-> Uuid("d1"),
            email |-> "a@example.org"],
     B |-> [token |-> "jwt:B", user_id |-> Uuid("u2"), device_id |-> Uuid("d3"),
            email |-> "b@example.org"]]
\* Uuid::to_string and Uuid::parse_str
uuid_to_string(u) == u[2]
UuidStrings == {"u1", "u2", "d1", "d2", "d3"}
uuid_parse_str(s) ==
    IF s \in UuidStrings THEN [ok |-> TRUE, uuid |-> Uuid(s)] ELSE [ok |-> FALSE, uuid |-> Uuid("")]

\* the auth rows of app_config; a key never written has no row
AuthKeys == {"auth_token", "auth_user_id", "auth_device_id", "auth_email"}
NoSettings == [k \in AuthKeys |-> None]
\* Database::get_setting (storage/database.rs:484-492): Some(value) or None
get_setting(settings, key) ==
    [some |-> settings[key] # None, value |-> settings[key]]
\* Database::set_setting (storage/database.rs:494-501)
set_setting(settings, key, value) == [settings EXCEPT ![key] = value]

\* SyncManager::persist_auth (manager.rs:79-88)
persist_auth(settings, state) ==
    LET s1 == set_setting(settings, "auth_token", state.token)
        s2 == set_setting(s1, "auth_user_id", uuid_to_string(state.user_id))
        s3 == set_setting(s2, "auth_device_id", uuid_to_string(state.device_id))
    IN  set_setting(s3, "auth_email", state.email)

\* a plausible bug: logout leaves the persisted session in place
clear_auth_settings_keep(settings) == settings

\* SyncManager::clear_auth_settings (manager.rs:90-95)
clear_auth_settings(settings) ==
    LET s1 == set_setting(settings, "auth_token", "")
        s2 == set_setting(s1, "auth_user_id", "")
        s3 == set_setting(s2, "auth_device_id", "")
    IN  set_setting(s3, "auth_email", "")

\* SyncManager::try_restore_auth (manager.rs:50-77): the account whose
\* AuthState the four rows make up, None when a row is missing, the token
\* or the user id is empty, or an id is no Uuid
try_restore_auth(settings) ==
    LET token == get_setting(settings, "auth_token")
        user_id == get_setting(settings, "auth_user_id")
        device_id == get_setting(settings, "auth_device_id")
        email == get_setting(settings, "auth_email")
    IN  IF ~(token.some /\ user_id.some /\ device_id.some /\ email.some)
        THEN None
        ELSE IF token.value = "" \/ user_id.value = ""
        THEN None
        ELSE IF ~(uuid_parse_str(user_id.value).ok /\ uuid_parse_str(device_id.value).ok)
        THEN None
        ELSE LET state == [token |-> token.value,
                           user_id |-> uuid_parse_str(user_id.value).uuid,
                           device_id |-> uuid_parse_str(device_id.value).uuid,
                           email |-> email.value]
             IN  CHOOSE a \in SessionAccounts : AuthStates[a] = state

\* a plausible bug: connect_ws spawns the incoming handler twice
spawn_handler_twice(hs, c) == Append(Append(hs, c), c)

\* tauri::async_runtime::spawn of the incoming handler (manager.rs:280-347):
\* one more handler task, subscribed to the connection c
spawn_handler(hs, c) == Append(hs, c)

\* the incoming handler tasks subscribed to the connection c
HandlersOf(c) == SelectSeq(handlers, LAMBDA h : h = c)

\* SyncManager::login / register (manager.rs:113-163): the AuthState is
\* persisted and stored; the status is not touched
Login(a) ==
    /\ persisted' = persist_auth(persisted, AuthStates[a])
    /\ auth' = a
    /\ UNCHANGED <<ws, status, offline_queue, history_sync_enabled, writerAlive,
                   outgoing, serverRecv, pc, messages, idx, nops, qlog,
                   drainLog, flushSent, flushFailedAt, connGen>>
    /\ UNCHANGED <<sendFailed, handlers, boots>>
    /\ UNCHANGED <<localVars, reconVars, serverVars, linkVars, deviceVars>>

\* SyncManager::logout (manager.rs:165-175); ws.write() waits for the read
\* guard flush_offline_queue holds while it sends
Logout ==
    /\ pc # "send"
    /\ Disconnected(ws # None)
    /\ ws' = None
    /\ status' = "Disconnected"
    /\ persisted' = clear_auth_settings(persisted)
    /\ auth' = None
    /\ UNCHANGED <<offline_queue, history_sync_enabled, serverRecv, pc, messages,
                   idx, nops, qlog, drainLog, flushSent, flushFailedAt,
                   connGen>>
    /\ UNCHANGED <<sendFailed, handlers, boots>>
    /\ UNCHANGED <<localVars, reconVars, serverVars, linkVars>>
    /\ UNCHANGED <<cryptoVars, vaultVars, lastHistSync, incoming, owners, pc2>>

\* Database::get_slot_raw: the raw ciphertext of the slot, None for an empty
\* slot, and its updated_at
get_slot_raw(tbl, n) == <<tbl[n].content, tbl[n].updated_at>>

\* SyncManager::notify_slot_changed (manager.rs:361-392), given the raw
\* ciphertext it reads from the local store
notify_slot_changed(n, encrypted) ==
    IF auth = None \/ encrypted = None
    THEN UNCHANGED <<offline_queue, qlog, outgoing, sendFailed>>
    ELSE send_or_queue(SlotUpdate(n, B64Encode(encrypted), NowMs))

\* a row of clipboard_items (clipboard/item.rs:7-16); ids are numbers: the
\* k-th item made on this device has id k, an item of another device 100 + k
ClipboardItem(id, hash, created_at, is_promoted) ==
    [id |-> id, content_hash |-> hash, created_at |-> created_at,
     is_promoted |-> is_promoted]

\* the debounce window of insert_item, 2000 ms in the code
\* (storage/database.rs:148), in the milliseconds of the model
DebounceMs == 1

\* a plausible bug: the cutoff of the debounce window is inclusive
insert_item_inclusive(tbl, item) ==
    IF \E r \in tbl : r.content_hash = item.content_hash
                       /\ r.created_at >= item.created_at - DebounceMs
    THEN [inserted |-> FALSE, table |-> tbl]
    ELSE [inserted |-> TRUE, table |-> {r \in tbl : r.id # item.id} \cup {item}]

\* Database::insert_item (storage/database.rs:144-180): not inserted when a
\* row of the same hash was created within the debounce window
insert_item(tbl, item) ==
    IF \E r \in tbl : r.content_hash = item.content_hash
                       /\ r.created_at > item.created_at - DebounceMs
    THEN [inserted |-> FALSE, table |-> tbl]
    ELSE [inserted |-> TRUE, table |-> {r \in tbl : r.id # item.id} \cup {item}]

\* the values history_limit can hold and what str::parse::<u32> makes of
\* them
DEFAULT_HISTORY_LIMIT == 500
LimitValues == {"1", "2", "abc"}
parse_u32(v) ==
    IF v = "1" THEN [ok |-> TRUE, n |-> 1]
    ELSE IF v = "2" THEN [ok |-> TRUE, n |-> 2]
    ELSE IF v = "500" THEN [ok |-> TRUE, n |-> 500]
    ELSE [ok |-> FALSE, n |-> 0]

\* Database::get_history_limit (storage/database.rs:291-302)
get_history_limit(v) == IF parse_u32(v).ok THEN parse_u32(v).n ELSE DEFAULT_HISTORY_LIMIT

\* Database::get_count (storage/database.rs:284-289)
get_count(tbl) == Cardinality({r \in tbl : ~r.is_promoted})

\* the sets of rows DELETE ... WHERE id IN (SELECT id ... WHERE is_promoted
\* = 0 ORDER BY created_at ASC LIMIT k) can delete: k rows that are not
\* promoted, none newer than a row that stays; rows of equal created_at
\* come in any order
oldest_unpromoted(tbl, k) ==
    LET cand == {r \in tbl : ~r.is_promoted}
    IN  {D \in SUBSET cand :
            /\ Cardinality(D) = IF k < Cardinality(cand) THEN k ELSE Cardinality(cand)
            /\ \A d \in D, r \in cand \ D : d.created_at <= r.created_at}

\* Database::enforce_history_limit (storage/database.rs:505-530): the tables
\* it can leave
enforce_history_limit(tbl, v) ==
    LET limit == get_history_limit(v)
        count == get_count(tbl)
    IN  IF count <= limit THEN {tbl}
        ELSE {tbl \ D : D \in oldest_unpromoted(tbl, count - limit)}

\* Database::insert_synced_item: a row received from the server is inserted
\* under the id given unless a row of the same hash is there
insert_synced_item(tbl, id, hash, created_at) ==
    IF \E r \in tbl : r.content_hash = hash
    THEN [inserted |-> FALSE, table |-> tbl]
    ELSE [inserted |-> TRUE, table |-> tbl \cup {ClipboardItem(id, hash, created_at, FALSE)}]

\* what the last insertion of a history item did: seq alternates with every
\* insertion, path is "capture" or "synced"
InsertRecord(seq, path, inserted) == [seq |-> seq, path |-> path, inserted |-> inserted]
NoInsert == InsertRecord(0, "none", FALSE)

\* ClipboardMonitor::start, one capture (clipboard/monitor.rs:104-131): the
\* item is inserted and, when it was, the history limit is enforced
Capture(h) ==
    /\ nops < MaxOps
    /\ nops' = nops + 1
    /\ LET res == insert_item(items, ClipboardItem(nops + 1, h, NowMs, FALSE))
       IN  /\ lastInsert' = InsertRecord(1 - lastInsert.seq, "capture", res.inserted)
           /\ IF res.inserted
              THEN items' \in enforce_history_limit(res.table, history_limit)
              ELSE UNCHANGED items
    /\ UNCHANGED <<auth, ws, status, offline_queue, history_sync_enabled, writerAlive,
                   outgoing, serverRecv, pc, messages, idx, qlog, drainLog, flushSent,
                   flushFailedAt, connGen, sendFailed, handlers, persisted, boots>>
    /\ UNCHANGED <<slots, clock, history_limit, reconVars, serverVars, linkVars, deviceVars>>

\* update_setting for history_limit (lib.rs:277-288)
UpdateSetting(v) ==
    /\ history_limit' = v
    /\ UNCHANGED <<clientVars, slots, clock, items, lastInsert, reconVars, serverVars,
                   linkVars, deviceVars>>

\* the incoming handler of the connection held takes a history_new frame
\* from its receiver (manager.rs:314-337): the item is inserted by
\* Database::insert_synced_item with the local now as its creation instant;
\* the history limit is not enforced
HandleHistoryNew(id, hash) ==
    /\ ws # None
    /\ Len(HandlersOf(connGen)) > 0
    /\ LET res == insert_synced_item(items, id, hash, NowMs)
       IN  /\ items' = res.table
           /\ lastInsert' = InsertRecord(1 - lastInsert.seq, "synced", res.inserted)
    /\ UNCHANGED <<clientVars, slots, clock, history_limit, reconVars, serverVars,
                   linkVars, deviceVars>>

\* ---- the local store with the content column and the slots table -------

\* a row of clipboard_items with its content column (storage/database.rs:37-46)
StoredItem(id, content, hash, created_at, is_promoted) ==
    [id |-> id, content |-> content, content_hash |-> hash, created_at |-> created_at,
     is_promoted |-> is_promoted]

\* slots.item_id of a slot that points to no item: NULL
NoItem == 0

\* ClipboardItem::hash_content (clipboard/item.rs:32-36): SHA-256 of the text
hash_content(text) == [sha256 |-> text]

\* the texts the clipboard holds: "a" and "ab"
ClipboardTexts == {<<97>>, <<97, 98>>}

\* the nonce the engine draws for the item of id `id`
NonceOf(id) == [i \in 1..NonceLen |-> id % 3]

\* Option values
Some(v) == [some |-> TRUE, value |-> v]
Nothing == [some |-> FALSE, value |-> <<>>]

\* SlotInfo (slots/mod.rs:5-13), without the name and the preview
SlotInfo(n, content, updated_at, is_empty) ==
    [slot_number |-> n, content |-> content, updated_at |-> updated_at,
     is_empty |-> is_empty]

\* a plausible bug: save_to_slot writes the item with the is_promoted it has
save_to_slot_as_is(tbl, rows, k, n, item, now) ==
    LET enc   == encrypt(k, NonceOf(item.id), item.content).value
        tbl2  == {r \in tbl : r.id # item.id}
                    \cup {StoredItem(item.id, enc, item.content_hash, item.created_at,
                                     item.is_promoted)}
    IN  IF n \in DOMAIN rows
        THEN [ok |-> TRUE, items |-> tbl2,
              slots |-> [rows EXCEPT ![n] = [item_id |-> item.id, updated_at |-> now]],
              info |-> SlotInfo(n, Some(item.content), now, FALSE)]
        ELSE [ok |-> FALSE, items |-> tbl2, slots |-> rows,
              info |-> SlotInfo(n, Nothing, 0, TRUE)]

\* Database::save_to_slot (storage/database.rs:308-360): the item is written
\* promoted, under its id; the slot's row is pointed to it; reading the
\* name of a slot that has no row fails, after the item was written
save_to_slot(tbl, rows, k, n, item, now) ==
    LET enc   == encrypt(k, NonceOf(item.id), item.content).value
        tbl2  == {r \in tbl : r.id # item.id}
                    \cup {StoredItem(item.id, enc, item.content_hash, item.created_at,
                                     TRUE)}
    IN  IF n \in DOMAIN rows
        THEN [ok |-> TRUE, items |-> tbl2,
              slots |-> [rows EXCEPT ![n] = [item_id |-> item.id, updated_at |-> now]],
              info |-> SlotInfo(n, Some(item.content), now, FALSE)]
        ELSE [ok |-> FALSE, items |-> tbl2, slots |-> rows,
              info |-> SlotInfo(n, Nothing, 0, TRUE)]

\* slots s LEFT JOIN clipboard_items c ON s.item_id = c.id: the content of
\* the item the slot points to, if the slot points to a row there is
joined_content(tbl, rows, n) ==
    IF \E r \in tbl : r.id = rows[n].item_id
    THEN Some((CHOOSE r \in tbl : r.id = rows[n].item_id).content)
    ELSE Nothing

\* Database::get_slot (storage/database.rs:362-394)
get_slot(tbl, rows, k, n) ==
    LET encrypted == joined_content(tbl, rows, n)
        content   == IF encrypted.some /\ decrypt(k, encrypted.value).ok
                     THEN Some(decrypt(k, encrypted.value).value)
                     ELSE Nothing
    IN  SlotInfo(n, content, rows[n].updated_at, ~content.some)

\* the orders in which a query can return the rows of `rows_`: newest first,
\* rows of equal created_at in any order
RECURSIVE NewestFirst(_)
NewestFirst(rows_) ==
    IF rows_ = {} THEN {<<>>}
    ELSE UNION {{<<r>> \o rest : rest \in NewestFirst(rows_ \ {r})} :
                   r \in {x \in rows_ : \A y \in rows_ : y.created_at <= x.created_at}}

\* Database::get_history (storage/database.rs:182-220): what it can return;
\* a content that does not decrypt is returned as stored
get_history(tbl, k, limit, offset) ==
    LET plain(r) == IF decrypt(k, r.content).ok
                    THEN [r EXCEPT !.content = decrypt(k, r.content).value]
                    ELSE r
    IN  {[i \in 1..(IF Len(q) - offset < 0 THEN 0
                    ELSE IF Len(q) - offset < limit THEN Len(q) - offset ELSE limit)
             |-> plain(q[offset + i])] :
            q \in NewestFirst({r \in tbl : ~r.is_promoted})}

\* what a call of the local store did: the operation, the slot and the item
\* id given, whether it returned Ok, and the SlotInfo content and is_empty
\* returned
Call(op, n, id, ok, content, is_empty) ==
    [op |-> op, slot |-> n, id |-> id, ok |-> ok, content |-> content,
     is_empty |-> is_empty]

\* the save_to_slot command (lib.rs:199-219): a ClipboardItem is made of the
\* clipboard text and given to Database::save_to_slot
SaveToSlotCall(n, text) ==
    /\ nops < MaxOps
    /\ nops' = nops + 1
    /\ LET item == StoredItem(nops + 1, text, hash_content(text), NowMs, FALSE)
           res  == save_to_slot(items, slot_rows, master_key, n, item, NowMs)
       IN  /\ items' = res.items
           /\ slot_rows' = res.slots
           /\ lastCall' = Call("save_to_slot", n, item.id, res.ok, res.info.content,
                               res.info.is_empty)
    /\ UNCHANGED <<auth, ws, status, offline_queue, history_sync_enabled, writerAlive,
                   outgoing, serverRecv, pc, messages, idx, qlog, drainLog, flushSent,
                   flushFailedAt, connGen, sendFailed, handlers, persisted, boots>>
    /\ UNCHANGED <<slots, clock, history_limit, lastInsert, reconVars, serverVars,
                   linkVars, cryptoVars, lastHistSync, incoming, owners, tasks, pc2>>

\* the clipboard monitor captures a text (clipboard/monitor.rs:104-131);
\* insert_item stores the content encrypted (storage/database.rs:159-162)
CaptureText(text) ==
    /\ nops < MaxOps
    /\ nops' = nops + 1
    /\ LET enc  == encrypt(master_key, NonceOf(nops + 1), text).value
           res  == insert_item(items, StoredItem(nops + 1, enc, hash_content(text),
                                                 NowMs, FALSE))
       IN  /\ lastCall' = Call("insert_item", 0, nops + 1, res.inserted, Nothing, FALSE)
           /\ IF res.inserted
              THEN items' \in enforce_history_limit(res.table, history_limit)
              ELSE UNCHANGED items
    /\ UNCHANGED <<auth, ws, status, offline_queue, history_sync_enabled, writerAlive,
                   outgoing, serverRecv, pc, messages, idx, qlog, drainLog, flushSent,
                   flushFailedAt, connGen, sendFailed, handlers, persisted, boots>>
    /\ UNCHANGED <<slots, clock, history_limit, lastInsert, reconVars, serverVars,
                   linkVars, cryptoVars, slot_rows, lastHistSync, incoming, owners, tasks, pc2>>

\* the save_item_to_slot command (lib.rs:299-312):
\* Database::save_existing_item_to_slot (storage/database.rs:457-482)
\* promotes the row of the id, points the slot to the id and returns get_slot
SaveItemToSlotCall(n, id) ==
    /\ n \in DOMAIN slot_rows
    /\ \E r \in items : r.id = id
    /\ items' = {IF r.id = id THEN [r EXCEPT !.is_promoted = TRUE] ELSE r : r \in items}
    /\ slot_rows' = [slot_rows EXCEPT ![n] = [item_id |-> id, updated_at |-> NowMs]]
    /\ LET info == get_slot(items', slot_rows', master_key, n)
       IN  lastCall' = Call("save_existing_item_to_slot", n, id, TRUE, info.content,
                            info.is_empty)
    /\ UNCHANGED <<clientVars, slots, clock, history_limit, lastInsert, reconVars,
                   serverVars, linkVars, cryptoVars, lastHistSync, incoming, owners, tasks, pc2>>

\* the get_slot command (lib.rs:221-227)
GetSlotCall(n) ==
    /\ n \in DOMAIN slot_rows
    /\ LET info == get_slot(items, slot_rows, master_key, n)
       IN  lastCall' = Call("get_slot", n, slot_rows[n].item_id, TRUE, info.content,
                            info.is_empty)
    /\ UNCHANGED <<clientVars, localVars, reconVars, serverVars, linkVars, cryptoVars,
                   slot_rows, lastHistSync, incoming, owners, tasks, pc2>>

\* the delete_history_item command (lib.rs:165-171): Database::delete_item
\* (storage/database.rs:269-273) deletes the row of the id.  The slots table
\* declares item_id REFERENCES clipboard_items(id); whether SQLite enforces
\* it depends on how the library was built (PRAGMA foreign_keys is not
\* set): enforced, the delete of a row a slot points to fails
DeleteItemCall(id, foreign_keys) ==
    /\ \E r \in items : r.id = id
    /\ LET refused == foreign_keys /\ \E n \in DOMAIN slot_rows : slot_rows[n].item_id = id
       IN  /\ items' = IF refused THEN items ELSE {r \in items : r.id # id}
           /\ lastCall' = Call("delete_item", 0, id, ~refused, Nothing, FALSE)
    /\ UNCHANGED <<clientVars, slots, clock, history_limit, lastInsert, reconVars,
                   serverVars, linkVars, cryptoVars, slot_rows, lastHistSync, incoming, owners, tasks, pc2>>

\* the clear_slot command (lib.rs:234-243): Database::clear_slot
\* (storage/database.rs:438-445)
ClearSlotCall(n) ==
    /\ n \in DOMAIN slot_rows
    /\ slot_rows' = [slot_rows EXCEPT ![n] = [item_id |-> NoItem, updated_at |-> 0]]
    /\ lastCall' = Call("clear_slot", n, NoItem, TRUE, Nothing, FALSE)
    /\ UNCHANGED <<clientVars, localVars, reconVars, serverVars, linkVars, cryptoVars,
                   lastHistSync, incoming, owners, tasks, pc2>>

\* handle_save_to_slot (slots/manager.rs:127-208): Database::save_to_slot
\* (storage/database.rs:308-360) and then notify_slot_changed for the slot
SaveToSlot(n) ==
    /\ nops < MaxOps
    /\ nops' = nops + 1
    /\ items' = items \cup {ClipboardItem(nops + 1, "hash_s", NowMs, TRUE)}
    /\ slots' = [slots EXCEPT ![n] = [content |-> Encrypted(nops + 1),
                                      updated_at |-> NowMs]]
    /\ notify_slot_changed(n, get_slot_raw(slots', n)[1])
    /\ UNCHANGED <<auth, ws, status, history_sync_enabled, writerAlive, serverRecv,
                   pc, messages, idx, drainLog, flushSent, flushFailedAt, connGen>>
    /\ UNCHANGED <<handlers, persisted, boots>>
    /\ owners' = IF owners.kept /\ qlog' # qlog
                  THEN [owners EXCEPT !.change[nops + 1] = auth]
                  ELSE owners
    /\ UNCHANGED <<clock, history_limit, lastInsert, reconVars, serverVars, linkVars>>
    /\ UNCHANGED <<cryptoVars, vaultVars, lastHistSync, incoming, tasks, pc2>>

\* SyncManager::notify_history_push (manager.rs:396-422) for a newly
\* captured item; the item's id is fresh
NotifyHistoryPush(h) ==
    /\ nops < MaxOps
    /\ nops' = nops + 1
    /\ IF auth = None \/ ~history_sync_enabled
       THEN UNCHANGED <<offline_queue, qlog, outgoing, sendFailed>>
       ELSE send_or_queue(HistoryPush(nops + 1, B64Encode(Encrypted(nops + 1)), h))
    /\ UNCHANGED <<auth, ws, status, history_sync_enabled, writerAlive, serverRecv,
                   pc, messages, idx, drainLog, flushSent, flushFailedAt,
                   connGen>>
    /\ UNCHANGED <<handlers, persisted, boots>>
    /\ owners' = IF owners.kept /\ qlog' # qlog
                  THEN [owners EXCEPT !.change[nops + 1] = auth]
                  ELSE owners
    /\ UNCHANGED <<localVars, reconVars, serverVars, linkVars>>
    /\ UNCHANGED <<cryptoVars, vaultVars, lastHistSync, incoming, tasks, pc2>>

\* SyncManager::connect_ws, its start (manager.rs:246-264): the connection
\* held is taken and disconnected, the auth is read and the status becomes
\* Connecting
ConnectWsStart ==
    /\ pc = "idle"
    /\ auth # None
    /\ Disconnected(ws # None)
    /\ ws' = None
    /\ status' = "Connecting"
    /\ pc' = "connecting"
    /\ UNCHANGED <<auth, offline_queue, history_sync_enabled, serverRecv,
                   messages, idx, nops, qlog, drainLog, flushSent,
                   flushFailedAt, connGen>>
    /\ sendFailed' = FALSE
    /\ UNCHANGED <<handlers, persisted, boots>>
    /\ owners' = IF owners.kept THEN [owners EXCEPT !.conn = auth] ELSE owners
    /\ UNCHANGED <<localVars, reconVars, serverVars, linkVars>>
    /\ UNCHANGED <<cryptoVars, vaultVars, lastHistSync, incoming, pc2>>

\* broadcast::channel(64) of a connection not made yet (ws_client.rs:29)
NewIncoming == [frames |-> <<>>, lagged |-> FALSE, received |-> 0, taken |-> 0,
                missed |-> 0, ignored |-> 0, last |-> None]

\* a plausible bug: the writer task of a client that is overwritten goes on
store_client_leaking(t, held, c) ==
    [writers |-> t.writers \cup {c}, readers |-> t.readers \cup {c},
     dropped |-> t.dropped \cup held]

\* WsClient::connect spawns the writer and the reader of the connection c
\* (ws_client.rs:34-93) and `*self.ws.write().await = Some(client)`
\* (manager.rs:349) stores its handle.  A handle that is still held is
\* dropped by the assignment: its shutdown_tx is dropped, shutdown_rx.recv()
\* yields None, which the arm `_ = shutdown_rx.recv()` accepts, so its
\* writer closes the stream and exits (ws_client.rs:52-56); dropped
\* records the connections that ended this way
store_client(t, held, c) ==
    [writers |-> (t.writers \ held) \cup {c}, readers |-> t.readers \cup {c},
     dropped |-> t.dropped \cup held]

\* SyncManager::connect_ws, WsClient::connect succeeds (manager.rs:266-351):
\* the new client is stored and the status becomes Connected, whatever
\* happened to the auth meanwhile; the flush follows
ConnectWsOpen ==
    /\ pc = "connecting"
    /\ connGen < MaxConnects
    /\ connGen' = connGen + 1
    /\ ws' = "ws"
    /\ writerAlive' = TRUE
    /\ outgoing' = <<>>
    /\ status' = "Connected"
    /\ pc' = "drain"
    /\ flushSent' = <<>>
    /\ flushFailedAt' = 0
    /\ UNCHANGED <<auth, offline_queue, history_sync_enabled, serverRecv, messages,
                   idx, nops, qlog, drainLog>>
    /\ handlers' = spawn_handler(handlers, connGen')
    /\ incoming' = NewIncoming
    /\ UNCHANGED <<sendFailed, persisted, boots>>
    /\ tasks' = store_client(tasks, IF ws # None THEN {connGen} ELSE {}, connGen')
    /\ UNCHANGED <<localVars, reconVars, serverVars, linkVars, cryptoVars, vaultVars,
                   lastHistSync, owners, pc2>>

\* connect_ws called by a second caller while the first call may be under
\* way, its start (manager.rs:246-264): as ConnectWsStart
ConnectWs2Start ==
    /\ pc2 = "idle"
    /\ auth # None
    /\ Disconnected(ws # None)
    /\ ws' = None
    /\ status' = "Connecting"
    /\ pc2' = "connecting"
    /\ UNCHANGED <<auth, offline_queue, history_sync_enabled, serverRecv, pc,
                   messages, idx, nops, qlog, drainLog, flushSent,
                   flushFailedAt, connGen>>
    /\ UNCHANGED <<sendFailed, handlers, persisted, boots>>
    /\ owners' = IF owners.kept THEN [owners EXCEPT !.conn = auth] ELSE owners
    /\ UNCHANGED <<localVars, reconVars, serverVars, linkVars>>
    /\ UNCHANGED <<cryptoVars, vaultVars, lastHistSync, incoming>>

\* connect_ws of the second caller, WsClient::connect succeeds
\* (manager.rs:266-356): the handler is spawned and the client is stored over
\* whatever handle the first caller has stored meanwhile; ws.write() waits
\* for the read guard a flush holds while it sends.  The call is taken with
\* an empty Offline Queue, so that its flush returns after the drain
\* (manager.rs:441-444)
ConnectWs2Open ==
    /\ pc2 = "connecting"
    /\ pc # "send"
    /\ offline_queue = <<>>
    /\ connGen < MaxConnects + 1
    /\ connGen' = connGen + 1
    /\ ws' = "ws"
    /\ writerAlive' = TRUE
    /\ outgoing' = <<>>
    /\ status' = "Connected"
    /\ pc2' = "idle"
    /\ handlers' = spawn_handler(handlers, connGen')
    /\ incoming' = NewIncoming
    /\ tasks' = store_client(tasks, IF ws # None THEN {connGen} ELSE {}, connGen')
    /\ UNCHANGED <<auth, offline_queue, history_sync_enabled, serverRecv, pc,
                   messages, idx, nops, qlog, drainLog, flushSent, flushFailedAt>>
    /\ UNCHANGED <<sendFailed, persisted, boots>>
    /\ UNCHANGED <<localVars, reconVars, serverVars, linkVars, cryptoVars, vaultVars,
                   lastHistSync, owners>>

\* SyncManager::connect_ws, WsClient::connect fails (manager.rs:266): the
\* error is returned, the status stays Connecting
ConnectWsFail ==
    /\ pc = "connecting"
    /\ pc' = "idle"
    /\ UNCHANGED <<auth, ws, status, offline_queue, history_sync_enabled,
                   writerAlive, outgoing, serverRecv, messages, idx, nops, qlog,
                   drainLog, flushSent, flushFailedAt, connGen>>
    /\ UNCHANGED <<sendFailed, handlers, persisted, boots>>
    /\ UNCHANGED <<localVars, reconVars, serverVars, linkVars, deviceVars>>

\* SyncManager::connect_ws without auth (manager.rs:246-256): the connection
\* held is taken and disconnected, then "Not logged in" is returned
ConnectWsNoAuth ==
    /\ pc = "idle"
    /\ auth = None
    /\ ws # None
    /\ Disconnected(TRUE)
    /\ ws' = None
    /\ UNCHANGED <<auth, status, offline_queue, history_sync_enabled, serverRecv,
                   pc, messages, idx, nops, qlog, drainLog, flushSent,
                   flushFailedAt, connGen>>
    /\ UNCHANGED <<sendFailed, handlers, persisted, boots>>
    /\ UNCHANGED <<localVars, reconVars, serverVars, linkVars>>
    /\ UNCHANGED <<cryptoVars, vaultVars, lastHistSync, incoming, owners, pc2>>

\* flush_offline_queue, the drain (manager.rs:441-444)
FlushDrain ==
    /\ pc = "drain"
    /\ messages' = drain(offline_queue).returned
    /\ offline_queue' = drain(offline_queue).left
    /\ drainLog' = qlog
    /\ qlog' = <<>>
    /\ idx' = 1
    /\ pc' = IF messages' = <<>> THEN "idle" ELSE "lock"
    /\ UNCHANGED <<auth, ws, status, history_sync_enabled, writerAlive, outgoing,
                   serverRecv, nops, flushSent, flushFailedAt, connGen>>
    /\ UNCHANGED <<sendFailed, handlers, persisted, boots>>
    /\ UNCHANGED <<localVars, reconVars, serverVars, linkVars, deviceVars>>

\* flush_offline_queue, taking the read guard on ws (manager.rs:447-448):
\* without a client the drained messages are dropped
FlushLock ==
    /\ pc = "lock"
    /\ IF ws = None
       THEN pc' = "idle" /\ messages' = <<>>
       ELSE pc' = "send" /\ UNCHANGED messages
    /\ UNCHANGED <<auth, ws, status, offline_queue, history_sync_enabled,
                   writerAlive, outgoing, serverRecv, idx, nops, qlog,
                   drainLog, flushSent, flushFailedAt, connGen>>
    /\ UNCHANGED <<sendFailed, handlers, persisted, boots>>
    /\ UNCHANGED <<localVars, reconVars, serverVars, linkVars, deviceVars>>

\* flush_offline_queue, one iteration whose send succeeds (manager.rs:449-450)
FlushSendOk ==
    /\ pc = "send"
    /\ writerAlive
    /\ outgoing' = Append(outgoing, [msg |-> messages[idx], via |-> "flush"])
    /\ flushSent' = Append(flushSent, messages[idx])
    /\ IF idx = Len(messages)
       THEN pc' = "idle" /\ messages' = <<>> /\ idx' = 1
       ELSE pc' = "send" /\ idx' = idx + 1 /\ UNCHANGED messages
    /\ UNCHANGED <<auth, ws, status, offline_queue, history_sync_enabled,
                   writerAlive, serverRecv, nops, qlog, drainLog,
                   flushFailedAt, connGen>>
    /\ UNCHANGED <<sendFailed, handlers, persisted, boots>>
    /\ UNCHANGED <<localVars, reconVars, serverVars, linkVars, deviceVars>>

\* flush_offline_queue, the iteration whose send fails (manager.rs:450-455):
\* the failed message is re-queued and the loop is left
FlushSendFail ==
    /\ pc = "send"
    /\ ~writerAlive
    /\ offline_queue' = enqueue(offline_queue, messages[idx])
    /\ qlog' = Append(qlog, messages[idx])
    /\ flushFailedAt' = idx
    /\ pc' = "idle"
    /\ messages' = <<>>
    /\ idx' = 1
    /\ UNCHANGED <<auth, ws, status, history_sync_enabled, writerAlive, outgoing,
                   serverRecv, nops, drainLog, flushSent, connGen>>
    /\ sendFailed' = TRUE
    /\ UNCHANGED <<handlers, persisted, boots>>
    /\ UNCHANGED <<localVars, reconVars, serverVars, linkVars, deviceVars>>

\* the writer task forwards one frame to the socket (ws_client.rs:41-46)
WriterForward ==
    /\ writerAlive
    /\ outgoing # <<>>
    /\ serverRecv' = Append(serverRecv,
                            [msg |-> Head(outgoing).msg, via |-> Head(outgoing).via,
                             conn |-> connGen])
    /\ outgoing' = Tail(outgoing)
    /\ UNCHANGED <<auth, ws, status, offline_queue, history_sync_enabled,
                   writerAlive, pc, messages, idx, nops, qlog, drainLog,
                   flushSent, flushFailedAt, connGen>>
    /\ UNCHANGED <<sendFailed, handlers, persisted, boots>>
    /\ UNCHANGED <<localVars, reconVars, serverVars, linkVars, deviceVars>>

\* the writer task ends on a socket error (ws_client.rs:42-51): outgoing_rx
\* is dropped with what it holds
WriterFail ==
    /\ ws # None
    /\ writerAlive
    /\ Disconnected(TRUE)
    /\ UNCHANGED <<auth, ws, status, offline_queue, history_sync_enabled,
                   serverRecv, pc, messages, idx, nops, qlog, drainLog,
                   flushSent, flushFailedAt, connGen>>
    /\ UNCHANGED <<sendFailed, handlers, persisted, boots>>
    /\ UNCHANGED <<localVars, reconVars, serverVars, linkVars>>
    /\ UNCHANGED <<cryptoVars, vaultVars, lastHistSync, incoming, owners, pc2>>

\* the reader task of the connection c ends (ws_client.rs:61-92): the
\* stream yields a Close frame, an error or its end, which is up to the peer
\* and the network; the shutdown signal goes to the writer only
ReaderEnd(c) ==
    /\ c \in tasks.readers
    /\ tasks' = [tasks EXCEPT !.readers = @ \ {c}]
    /\ UNCHANGED <<clientVars, localVars, reconVars, serverVars, linkVars>>
    /\ UNCHANGED <<cryptoVars, vaultVars, lastHistSync, incoming, owners, pc2>>

\* an incoming handler task ends (manager.rs:283, 347): its receiver is
\* closed once the WsClient of its connection has been dropped by the
\* manager and the reader task of that connection, which holds
\* incoming_tx_clone, has ended
HandlerEnd(i) ==
    /\ i \in 1..Len(handlers)
    /\ ws = None \/ handlers[i] # connGen
    /\ handlers[i] \notin tasks.readers
    /\ handlers' = [j \in 1..(Len(handlers) - 1) |->
                        IF j < i THEN handlers[j] ELSE handlers[j + 1]]
    /\ UNCHANGED <<auth, ws, status, offline_queue, history_sync_enabled,
                   writerAlive, outgoing, serverRecv, pc, messages, idx, nops,
                   qlog, drainLog, flushSent, flushFailedAt, connGen>>
    /\ UNCHANGED <<sendFailed, persisted, boots>>
    /\ UNCHANGED <<localVars, reconVars, serverVars, linkVars, deviceVars>>

\* restarts of the application in one behaviour
MaxBoots == 1

\* the application is restarted: SyncManager::new (manager.rs:31-48) builds
\* a manager with an empty queue, no connection and the status Disconnected
\* and restores the auth from the settings (manager.rs:50-77); the tasks of
\* the old process are gone
Restart ==
    /\ boots < MaxBoots
    /\ boots' = boots + 1
    /\ auth' = try_restore_auth(persisted)
    /\ ws' = None
    /\ status' = "Disconnected"
    /\ offline_queue' = <<>>
    /\ writerAlive' = FALSE
    /\ outgoing' = <<>>
    /\ pc' = "idle"
    /\ messages' = <<>>
    /\ idx' = 1
    /\ qlog' = <<>>
    /\ drainLog' = <<>>
    /\ flushSent' = <<>>
    /\ flushFailedAt' = 0
    /\ sendFailed' = FALSE
    /\ handlers' = <<>>
    /\ UNCHANGED <<history_sync_enabled, serverRecv, nops, connGen, persisted>>
    /\ tasks' = NoTasks
    /\ pc2' = "idle"
    /\ UNCHANGED <<localVars, reconVars, serverVars, linkVars>>
    /\ UNCHANGED <<cryptoVars, vaultVars, lastHistSync, incoming, owners>>

----------------------------------------------------------------------------
(* Relay server: tokens, tables and the per-user broadcast channels        *)
(* (clipslot-server/src/middleware/auth.rs, routes/ws.rs, routes/sync.rs). *)

Users == {"u1", "u2"}
Devices == {"d1", "d2", "d3"}
\* the user each device was registered for
DeviceUser == [d \in Devices |-> IF d = "d3" THEN "u2" ELSE "u1"]

\* create_token: the claims of a token (middleware/auth.rs:54-71)
create_token(user, device) == [sub |-> user, device_id |-> device]
\* the tokens in circulation: one per device, and a user token without a
\* device as login and register issue it
Tokens ==
    {create_token(DeviceUser[d], d) : d \in Devices} \cup {create_token("u1", None)}
DeviceTokens == {t \in Tokens : t.device_id # None}

\* history items as devices capture them: the id is a UUID v4 minted with
\* the item (clipboard/item.rs:19-30), so an id names one capture of one
\* user; i1 and i2 are two captures of the same plaintext
HistoryItems ==
    { [id |-> "i1", owner |-> "u1", content_hash |-> "hash_a"],
      [id |-> "i2", owner |-> "u1", content_hash |-> "hash_a"],
      [id |-> "i3", owner |-> "u2", content_hash |-> "hash_a"] }

\* connections are named by their device: the client keeps a single
\* connection (sync/manager.rs:250-253, 349)
ConnIds == Devices

\* server-to-client frames (routes/ws.rs:190-195, 230-235, 135-137)
SlotUpdated(n, blob, device, ts) ==
    [type |-> "slot_updated", slot_number |-> n, encrypted_blob |-> blob,
     updated_by |-> device, timestamp |-> ts]
HistoryNew(id, blob, hash, device) ==
    [type |-> "history_new", id |-> id, encrypted_blob |-> blob,
     content_hash |-> hash, device_id |-> device]
ErrorMsg(text) == [type |-> "error", message |-> text]

\* an element of a broadcast channel: (origin_device_id, json_payload); of_user
\* and seq record whose mutation it is and which request made it
Frame(origin, payload, user, seq) ==
    [origin_device |-> origin, payload |-> payload, of_user |-> user, seq |-> seq]
\* a frame of the connection's direct channel
DirectFrame(payload, user) == Frame(None, payload, user, 0)

\* no row in synced_slots for a (user, slot)
NoRow == [present |-> FALSE, encrypted_blob |-> None, updated_at |-> 0, updated_by |-> None]

\* a connection slot not in use
FreeConn ==
    [used |-> FALSE, user |-> None, device |-> None, chan |-> None,
     fwd |-> FALSE, inb |-> FALSE, rx |-> <<>>, lagged |-> FALSE,
     direct |-> <<>>, sent |-> <<>>, owed |-> <<>>]

\* a plausible bug: one channel shared by every user
get_or_create_channel_shared(user) == "all"

\* get_or_create_channel: the key of the channel a connection of the user
\* subscribes to (routes/ws.rs:43-52)
get_or_create_channel(user) == user

\* tx.send((origin, payload)) on the channel stored under key: every
\* subscribed receiver gets the frame; a receiver already holding
\* ChannelCapacity frames loses its oldest one and is marked lagged
\* (tokio broadcast, routes/ws.rs:50, 196).  owed records, for every
\* connection of the user whose peer is still there, the frames of other
\* devices published meanwhile.
publish(cs, key, frame) ==
    [c \in DOMAIN cs |->
        LET k == cs[c]
            o == IF k.used /\ k.inb /\ k.user = frame.of_user
                    /\ k.device # frame.origin_device
                 THEN Append(k.owed, frame) ELSE k.owed
        IN  IF k.used /\ k.fwd /\ k.chan = key
            THEN [k EXCEPT !.rx = IF Len(k.rx) = ChannelCapacity
                                  THEN Append(Tail(k.rx), frame)
                                  ELSE Append(k.rx, frame),
                           !.lagged = k.lagged \/ Len(k.rx) = ChannelCapacity,
                           !.owed = o]
            ELSE [k EXCEPT !.owed = o]]

\* direct_tx.send(error): the frame enters the direct channel unless the
\* forwarding task, which owns direct_rx, is gone
send_direct(k, payload) ==
    IF k.fwd THEN [k EXCEPT !.direct = Append(k.direct, DirectFrame(payload, k.user))]
    ELSE k

\* INSERT INTO synced_slots ... ON CONFLICT (user_id, slot_number) DO UPDATE
\* (routes/sync.rs:103-115, routes/ws.rs:168-179)
upsert_slot(tbl, user, n, bytes, device, now) ==
    [tbl EXCEPT ![<<user, n>>] =
        [present |-> TRUE, encrypted_blob |-> bytes, updated_at |-> now,
         updated_by |-> device]]

\* the primary key of synced_history is id: a row with the id is there
synced_history_pkey(tbl, row) == \E r \in tbl : r.id = row.id

\* a plausible bug: a conflicting insert replaces the row
insert_history_replace(tbl, row) ==
    [ok |-> TRUE, rows_affected |-> 1,
     table |-> {r \in tbl : ~(r.user_id = row.user_id /\ r.content_hash = row.content_hash)}
               \cup {row}]

\* INSERT INTO synced_history ... ON CONFLICT (user_id, content_hash) DO
\* NOTHING (routes/sync.rs:199-211, routes/ws.rs:215-226): a row of the same
\* user and hash makes the insert do nothing; a row with the same id and
\* another (user, hash) violates the primary key
insert_history(tbl, row) ==
    IF \E r \in tbl : r.user_id = row.user_id /\ r.content_hash = row.content_hash
    THEN [ok |-> TRUE, rows_affected |-> 0, table |-> tbl]
    ELSE IF synced_history_pkey(tbl, row)
         THEN [ok |-> FALSE, rows_affected |-> 0, table |-> tbl]
         ELSE [ok |-> TRUE, rows_affected |-> 1, table |-> tbl \cup {row}]

\* the rows of (user, hash)
HistoryRows(tbl, user, hash) ==
    {r \in tbl : r.user_id = user /\ r.content_hash = hash}

\* the slot write a response answers: the slot number and the blob it
\* carried and the device it came from
SlotRequest(n, blob, sender) == [slot |-> n, blob |-> blob, sender |-> sender]
NoRequest == SlotRequest(0, [b64 |-> FALSE, data |-> None], None)

\* what a history push answered: the status, the number of rows the insert
\* added, and whether its (user, hash) had a row with another id
Response(op, code, rows, other_id) ==
    [op |-> op, status |-> code, rows_affected |-> rows, other_id |-> other_id,
     req |-> NoRequest]
\* what a slot write answered: the HTTP status, or over WebSocket the text
\* of the error frame or "ok"
SlotResponse(op, code, req) ==
    [op |-> op, status |-> code, rows_affected |-> 0, other_id |-> FALSE, req |-> req]
NoResponse == Response("none", None, 0, FALSE)

\* the ciphertext a request carries: a fresh encryption
FreshBlob == B64Encode(Encrypted(nops + npub + 1))
\* the slot the requests of the relay specification name
RequestSlots == {1}

----------------------------------------------------------------------------
(* Relay server: handlers.                                                 *)

\* ws_handler and the start of handle_socket (routes/ws.rs:29-69): a token
\* without a device is refused; otherwise the connection subscribes to the
\* user's channel, creating it if needed, and its two tasks start
WsHandler(tok) ==
    /\ tok.device_id # None => ~conns[tok.device_id].used
    /\ LET c == tok.device_id
           key == get_or_create_channel(tok.sub)
       IN  IF tok.device_id = None
           THEN UNCHANGED <<conns, user_channels>>
           ELSE /\ user_channels' = user_channels \cup {key}
                /\ conns' = [conns EXCEPT ![c] =
                                [FreeConn EXCEPT !.used = TRUE, !.user = tok.sub,
                                                 !.device = tok.device_id, !.chan = key,
                                                 !.fwd = TRUE, !.inb = TRUE]]
    /\ UNCHANGED <<synced_history, synced_slots, lastResp, npub>>
    /\ UNCHANGED <<clientVars, localVars, reconVars, linkVars, deviceVars>>

\* a plausible bug: the forwarding task without the origin filter
forward_frame_nofilter(k) ==
    IF k.inb
    THEN [k EXCEPT !.rx = Tail(k.rx), !.sent = Append(k.sent, Head(k.rx))]
    ELSE [k EXCEPT !.fwd = FALSE, !.rx = <<>>, !.direct = <<>>]

\* a plausible bug: the origin filter inverted
forward_frame_inverted(k) ==
    IF Head(k.rx).origin_device # k.device
    THEN [k EXCEPT !.rx = Tail(k.rx)]
    ELSE IF k.inb
         THEN [k EXCEPT !.rx = Tail(k.rx), !.sent = Append(k.sent, Head(k.rx))]
         ELSE [k EXCEPT !.fwd = FALSE, !.rx = <<>>, !.direct = <<>>]

\* send_task on Ok((origin_device, payload)) (routes/ws.rs:77-84): a frame of
\* the connection's own device is skipped, any other is written to the
\* socket, and the task ends when the write fails because the peer is gone
forward_frame(k) ==
    IF Head(k.rx).origin_device = k.device
    THEN [k EXCEPT !.rx = Tail(k.rx)]
    ELSE IF k.inb
         THEN [k EXCEPT !.rx = Tail(k.rx), !.sent = Append(k.sent, Head(k.rx))]
         ELSE [k EXCEPT !.fwd = FALSE, !.rx = <<>>, !.direct = <<>>]

\* send_task, one rx.recv() (routes/ws.rs:73-87): Err(Lagged) ends the task
\* and drops the receiver
Forward(c) ==
    /\ conns[c].used /\ conns[c].fwd
    /\ conns[c].lagged \/ conns[c].rx # <<>>
    /\ conns' = [conns EXCEPT ![c] =
                    IF conns[c].lagged
                    THEN [conns[c] EXCEPT !.fwd = FALSE, !.rx = <<>>, !.direct = <<>>]
                    ELSE forward_frame(conns[c])]
    /\ UNCHANGED <<user_channels, synced_history, synced_slots, lastResp, npub>>
    /\ UNCHANGED <<clientVars, localVars, reconVars, linkVars, deviceVars>>

\* send_task, one direct_rx.recv() (routes/ws.rs:88-92)
ForwardDirect(c) ==
    /\ conns[c].used /\ conns[c].fwd
    /\ conns[c].direct # <<>>
    /\ conns' = [conns EXCEPT ![c] =
                    IF conns[c].inb
                    THEN [conns[c] EXCEPT !.direct = Tail(conns[c].direct),
                                          !.sent = Append(conns[c].sent, Head(conns[c].direct))]
                    ELSE [conns[c] EXCEPT !.fwd = FALSE, !.rx = <<>>, !.direct = <<>>]]
    /\ UNCHANGED <<user_channels, synced_history, synced_slots, lastResp, npub>>
    /\ UNCHANGED <<clientVars, localVars, reconVars, linkVars, deviceVars>>

\* the peer closes the socket: recv_task leaves its loop and handle_socket
\* returns (routes/ws.rs:100-121); the forwarding task is not stopped
ClientClose(c) ==
    /\ conns[c].used /\ conns[c].inb
    /\ conns' = [conns EXCEPT ![c].inb = FALSE]
    /\ UNCHANGED <<user_channels, synced_history, synced_slots, lastResp, npub>>
    /\ UNCHANGED <<clientVars, localVars, reconVars, linkVars, deviceVars>>

\* handle_ws_message on a text frame that serde_json does not parse as a
\* WsMessage (routes/ws.rs:132-141): an error frame goes to the direct
\* channel of the connection and the handler returns; recv_task takes the
\* next frame (routes/ws.rs:101-109)
WsInvalidMessage(c) ==
    /\ conns[c].used /\ conns[c].inb
    /\ npub < MaxRequests
    /\ npub' = npub + 1
    /\ conns' = [conns EXCEPT ![c] = send_direct(conns[c], ErrorMsg("Invalid message"))]
    /\ lastResp' = SlotResponse("ws_invalid_message", "Invalid message",
                                SlotRequest(0, [b64 |-> FALSE, data |-> None], c))
    /\ UNCHANGED <<user_channels, synced_history, synced_slots>>
    /\ UNCHANGED <<clientVars, localVars, reconVars, linkVars, deviceVars>>

\* the checks of a slot_update frame (routes/ws.rs:149-165): the text of the
\* error frame, or "ok"
ws_slot_update_check(n, blob) ==
    IF n \notin 1..SlotLimit THEN "Invalid slot number"
    ELSE IF ~B64Decode(blob).ok THEN "Invalid base64 blob"
    ELSE "ok"

\* the checks of update_slot (routes/sync.rs:93-99): the status answered
update_slot_check(n, blob) ==
    IF n \notin 1..SlotLimit THEN "400"
    ELSE IF ~B64Decode(blob).ok THEN "400"
    ELSE "200"

\* handle_ws_message, SlotUpdate (routes/ws.rs:144-197); the frame published
\* carries the timestamp the client sent
WsSlotUpdate(c, n, blob, ts) ==
    /\ conns[c].used /\ conns[c].inb
    /\ npub < MaxRequests
    /\ npub' = npub + 1
    /\ LET k == conns[c]
           code == ws_slot_update_check(n, blob)
       IN  IF code = "ok"
           THEN /\ synced_slots' = upsert_slot(synced_slots, k.user, n,
                                               B64Decode(blob).bytes, k.device, clock)
                /\ conns' = publish(conns, k.chan,
                                    Frame(k.device, SlotUpdated(n, blob, k.device, ts),
                                          k.user, npub + 1))
           ELSE /\ conns' = [conns EXCEPT ![c] = send_direct(k, ErrorMsg(code))]
                /\ UNCHANGED synced_slots
    /\ lastResp' = SlotResponse("ws_update_slot", ws_slot_update_check(n, blob),
                                SlotRequest(n, blob, c))
    /\ UNCHANGED <<user_channels, synced_history>>
    /\ UNCHANGED <<clientVars, localVars, reconVars, linkVars, deviceVars>>

\* handle_ws_message, HistoryPush (routes/ws.rs:199-247)
WsHistoryPush(c, item, blob) ==
    /\ conns[c].used /\ conns[c].inb
    /\ item.owner = conns[c].user
    /\ npub < MaxRequests
    /\ npub' = npub + 1
    /\ LET k == conns[c]
           row == [id |-> item.id, user_id |-> k.user,
                   encrypted_blob |-> B64Decode(blob).bytes,
                   content_hash |-> item.content_hash, device_id |-> k.device,
                   created_at |-> clock]
           result == insert_history(synced_history, row)
           before == HistoryRows(synced_history, k.user, item.content_hash)
       IN  IF ~B64Decode(blob).ok
           THEN /\ conns' = [conns EXCEPT ![c] = send_direct(k, ErrorMsg("Invalid base64 blob"))]
                /\ lastResp' = Response("push_history", "Invalid base64 blob", 0,
                                        \E r \in before : r.id # item.id)
                /\ UNCHANGED synced_history
           ELSE /\ synced_history' = result.table
                /\ lastResp' = Response("push_history",
                                        IF result.ok THEN "ok" ELSE "Failed to save history",
                                        result.rows_affected,
                                        \E r \in before : r.id # item.id)
                /\ conns' = IF ~result.ok
                            THEN [conns EXCEPT ![c] =
                                     send_direct(k, ErrorMsg("Failed to save history"))]
                            ELSE IF result.rows_affected > 0
                            THEN publish(conns, k.chan,
                                         Frame(k.device,
                                               HistoryNew(item.id, blob, item.content_hash, k.device),
                                               k.user, npub + 1))
                            ELSE conns
    /\ UNCHANGED <<user_channels, synced_slots>>
    /\ UNCHANGED <<clientVars, localVars, reconVars, linkVars, deviceVars>>

\* PUT /api/sync/slots/{number} (routes/sync.rs:87-130)
HttpUpdateSlot(tok, n, blob) ==
    /\ npub < MaxRequests
    /\ npub' = npub + 1
    /\ LET code == update_slot_check(n, blob)
       IN  IF code = "200"
           THEN /\ synced_slots' = upsert_slot(synced_slots, tok.sub, n,
                                               B64Decode(blob).bytes, tok.device_id, clock)
                /\ conns' = IF tok.device_id # None /\ tok.sub \in user_channels
                            THEN publish(conns, tok.sub,
                                         Frame(tok.device_id,
                                               SlotUpdated(n, blob, tok.device_id, NowMs),
                                               tok.sub, npub + 1))
                            ELSE conns
           ELSE UNCHANGED <<synced_slots, conns>>
    /\ lastResp' = SlotResponse("http_update_slot", update_slot_check(n, blob),
                                SlotRequest(n, blob, tok.device_id))
    /\ UNCHANGED <<user_channels, synced_history>>
    /\ UNCHANGED <<clientVars, localVars, reconVars, linkVars, deviceVars>>

\* POST /api/sync/history (routes/sync.rs:188-228)
HttpPushHistory(tok, item, blob) ==
    /\ item.owner = tok.sub
    /\ npub < MaxRequests
    /\ npub' = npub + 1
    /\ LET row == [id |-> item.id, user_id |-> tok.sub,
                   encrypted_blob |-> B64Decode(blob).bytes,
                   content_hash |-> item.content_hash, device_id |-> tok.device_id,
                   created_at |-> clock]
           result == insert_history(synced_history, row)
           before == HistoryRows(synced_history, tok.sub, item.content_hash)
       IN  IF ~B64Decode(blob).ok
           THEN /\ lastResp' = Response("push_history", "400", 0,
                                        \E r \in before : r.id # item.id)
                /\ UNCHANGED <<synced_history, conns>>
           ELSE /\ synced_history' = result.table
                /\ lastResp' = Response("push_history",
                                        IF result.ok THEN "201" ELSE "500",
                                        result.rows_affected,
                                        \E r \in before : r.id # item.id)
                /\ conns' = IF result.ok /\ result.rows_affected > 0
                               /\ tok.device_id # None /\ tok.sub \in user_channels
                            THEN publish(conns, tok.sub,
                                         Frame(tok.device_id,
                                               HistoryNew(item.id, blob, item.content_hash,
                                                          tok.device_id),
                                               tok.sub, npub + 1))
                            ELSE conns
    /\ UNCHANGED <<user_channels, synced_slots>>
    /\ UNCHANGED <<clientVars, localVars, reconVars, linkVars, deviceVars>>

----------------------------------------------------------------------------
(* Slot reconciler (sync/slot_sync.rs) and start_sync (sync/manager.rs).   *)

\* the account of the reconciling client at the server, and its device
ReconUser == "u1"
ReconDevice == "d1"

\* GET /api/sync/slots (routes/sync.rs:49-73): the rows of the user, the blob
\* base64-encoded
get_slots(tbl, user) ==
    [n \in SlotNumbers |->
        [present |-> tbl[<<user, n>>].present,
         slot_number |-> n,
         encrypted_blob |-> B64Encode(tbl[<<user, n>>].encrypted_blob),
         updated_at |-> tbl[<<user, n>>].updated_at,
         updated_by |-> tbl[<<user, n>>].updated_by]]

\* a plausible bug: a slot_updated frame a client sends is handled as its
\* slot_update
WsServerTypeMessage_as_update(c, msg) ==
    IF msg.type = "slot_updated"
    THEN WsSlotUpdate(c, msg.slot_number, msg.encrypted_blob, msg.timestamp)
    ELSE /\ conns[c].used /\ conns[c].inb
         /\ npub < MaxRequests
         /\ npub' = npub + 1
         /\ lastResp' = SlotResponse("ws_ignored", msg.type, NoRequest)
         /\ UNCHANGED <<user_channels, conns, synced_history, synced_slots>>
         /\ UNCHANGED <<clientVars, localVars, reconVars, linkVars, deviceVars>>

\* handle_ws_message on a frame of a server-to-client type, slot_updated,
\* history_new or error (routes/ws.rs:248-250): the arm `_ => {}`; nothing
\* is stored, published or answered
WsServerTypeMessage(c, msg) ==
    /\ conns[c].used /\ conns[c].inb
    /\ npub < MaxRequests
    /\ npub' = npub + 1
    /\ lastResp' = SlotResponse("ws_ignored", msg.type, NoRequest)
    /\ UNCHANGED <<user_channels, conns, synced_history, synced_slots>>
    /\ UNCHANGED <<clientVars, localVars, reconVars, linkVars, deviceVars>>

\* Database::save_encrypted_to_slot: store a ciphertext received from the
\* server in the slot, with the timestamp given
save_encrypted_to_slot(tbl, n, enc, ts, device) ==
    [tbl EXCEPT ![n] = [content |-> enc, updated_at |-> ts]]

\* a plausible bug: equal timestamps pull
slot_action_pull_on_tie(local_encrypted, local_updated_at, remote) ==
    IF local_encrypted # None /\ remote.present
    THEN IF parse_timestamp(remote.updated_at) >= local_updated_at THEN "pull"
         ELSE "push"
    ELSE IF local_encrypted # None THEN "push"
    ELSE IF remote.present THEN "pull"
    ELSE "none"

\* a plausible bug: the remote timestamp compared as it comes, not in
\* milliseconds
slot_action_raw_ts(local_encrypted, local_updated_at, remote) ==
    IF local_encrypted # None /\ remote.present
    THEN IF remote.updated_at > local_updated_at THEN "pull"
         ELSE IF local_updated_at > remote.updated_at THEN "push"
         ELSE "none"
    ELSE IF local_encrypted # None THEN "push"
    ELSE IF remote.present THEN "pull"
    ELSE "none"

\* the match of perform_full_slot_sync (slot_sync.rs:30-88): what is done
\* for a slot given the local raw slot and the remote row
slot_action(local_encrypted, local_updated_at, remote) ==
    IF local_encrypted # None /\ remote.present
    THEN IF parse_timestamp(remote.updated_at) > local_updated_at THEN "pull"
         ELSE IF local_updated_at > parse_timestamp(remote.updated_at) THEN "push"
         ELSE "none"
    ELSE IF local_encrypted # None THEN "push"
    ELSE IF remote.present THEN "pull"
    ELSE "none"

\* one iteration of the loop of perform_full_slot_sync (slot_sync.rs:20-89).
\* st carries the local table, the server table, the response of get_slots,
\* the counter, the HTTP calls made and whether an error was returned;
\* okCalls is the number of HTTP calls that succeed before the network fails
sync_slot(n, st, okCalls) ==
    LET raw == get_slot_raw(st.local, n)
        remote == st.remote_slots[n]
        act == slot_action(raw[1], raw[2], remote)
    IN  IF act = "pull"
        THEN IF ~B64Decode(remote.encrypted_blob).ok
             THEN [st EXCEPT !.err = TRUE]
             ELSE [st EXCEPT !.local = save_encrypted_to_slot(
                                           st.local, n, B64Decode(remote.encrypted_blob).bytes,
                                           parse_timestamp(remote.updated_at), ReconDevice),
                             !.synced = st.synced + 1,
                             !.acts[n] = "pull"]
        ELSE IF act = "push"
        THEN IF st.calls >= okCalls
             THEN [st EXCEPT !.err = TRUE]
             ELSE [st EXCEPT !.server = upsert_slot(
                                            st.server, ReconUser, n,
                                            B64Decode(B64Encode(raw[1])).bytes,
                                            ReconDevice, clock),
                             !.calls = st.calls + 1,
                             !.synced = st.synced + 1,
                             !.acts[n] = "push"]
        ELSE [st EXCEPT !.acts[n] = "none"]

RECURSIVE sync_loop(_, _, _)
sync_loop(n, st, okCalls) ==
    IF n > MaxSlot \/ st.err THEN st
    ELSE sync_loop(n + 1, sync_slot(n, st, okCalls), okCalls)

\* perform_full_slot_sync (slot_sync.rs:11-92)
perform_full_slot_sync(okCalls) ==
    LET st0 == [local |-> slots, server |-> synced_slots,
                remote_slots |-> get_slots(synced_slots, ReconUser),
                synced |-> 0, calls |-> 1, err |-> okCalls = 0,
                acts |-> [n \in SlotNumbers |-> "unvisited"]]
    IN  sync_loop(1, st0, okCalls)

\* what a run of the reconciler returned and did: Ok or Err, the count, and
\* the action taken for each slot; run alternates with every run
SyncRecord(run, st) ==
    [run |-> run, ok |-> ~st.err, synced |-> st.synced, acts |-> st.acts]
NoSync ==
    [run |-> 0, ok |-> FALSE, synced |-> 0, acts |-> [n \in SlotNumbers |-> "unvisited"]]

\* SyncManager::start_sync (manager.rs:188-242) with history sync switched
\* off: an error of the slot sync is returned with the status left at
\* Syncing
StartSync(okCalls) ==
    /\ ~history_sync_enabled
    /\ IF auth = None
       THEN UNCHANGED <<status, slots, synced_slots, lastSync>>
       ELSE LET st == perform_full_slot_sync(okCalls)
            IN  /\ slots' = st.local
                /\ synced_slots' = st.server
                /\ status' = IF st.err THEN "Syncing" ELSE "Connected"
                /\ lastSync' = SyncRecord(1 - lastSync.run, st)
    /\ UNCHANGED <<auth, ws, offline_queue, history_sync_enabled, writerAlive,
                   outgoing, serverRecv, pc, messages, idx, nops, qlog, drainLog,
                   flushSent, flushFailedAt, connGen>>
    /\ UNCHANGED <<sendFailed, handlers, persisted, boots>>
    /\ UNCHANGED <<clock, histVars, user_channels, conns, synced_history, lastResp, npub,
                   linkVars, deviceVars>>

\* a blob that is not base64, as a frame can carry it
BadBlob == [b64 |-> FALSE, data |-> "not base64"]

\* the incoming handler of the connection held takes a slot_updated frame
\* from its receiver (manager.rs:283-313): the blob is decoded and stored by
\* Database::save_encrypted_to_slot with the frame's timestamp, without a
\* look at the slot's current updated_at; a blob that does not decode is
\* logged and dropped.  The ciphertexts are ASCII, so String::from_utf8
\* succeeds on what decodes
HandleSlotUpdated(n, blob, timestamp) ==
    /\ ws # None
    /\ Len(HandlersOf(connGen)) > 0
    /\ LET blob_bytes == B64Decode(blob)
       IN  IF blob_bytes.ok
           THEN slots' = save_encrypted_to_slot(slots, n, blob_bytes.bytes, timestamp,
                                                AuthStates[auth].device_id)
           ELSE UNCHANGED slots
    /\ UNCHANGED <<clientVars, clock, histVars, reconVars, serverVars, linkVars, deviceVars>>

\* ---- the history reconciler (sync/history_sync.rs) ---------------------

\* rows a page of history holds: 200 in the code (history_sync.rs:23, 59;
\* routes/sync.rs:147), scaled down so that tables grow past a page
HistoryPage == 1

\* ORDER BY created_at DESC LIMIT k: the k newest rows of a table; rows of
\* equal created_at come in the order of the scan, which is fixed for a
\* given table (here: by id)
RECURSIVE newest_rows(_, _)
newest_rows(tbl, k) ==
    IF k = 0 \/ tbl = {} THEN <<>>
    ELSE LET r == CHOOSE r \in tbl :
                     \A q \in tbl : \/ r.created_at > q.created_at
                                    \/ r.created_at = q.created_at /\ r.id >= q.id
         IN  <<r>> \o newest_rows(tbl \ {r}, k - 1)

\* GET /api/sync/history?limit=&offset=0 (routes/sync.rs:142-170): the newest
\* rows of the user, at most 200 of them
server_get_history(tbl, user, limit) ==
    newest_rows({r \in tbl : r.user_id = user},
                IF limit < HistoryPage THEN limit ELSE HistoryPage)

\* Database::has_item_with_hash: a row of clipboard_items has the hash
has_item_with_hash(tbl, hash) == \E r \in tbl : r.content_hash = hash

\* Database::get_unpromoted_encrypted_items(limit): the newest rows that are
\* not promoted
get_unpromoted_encrypted_items(tbl, limit) ==
    newest_rows({r \in tbl : ~r.is_promoted}, limit)

\* the ciphertext clipboard_items holds for an item, in transport form: the
\* item's own, whichever device made it
local_blob(id) == B64Encode(Encrypted(IF id > 100 THEN MaxOps + (id - 100) ELSE id))

\* the pull loop (history_sync.rs:25-50): every remote item no local row
\* has the hash of is inserted under the server's id and creation instant
RECURSIVE pull_remote(_, _, _)
pull_remote(tbl, remote_items, pulled) ==
    IF remote_items = <<>> THEN [table |-> tbl, pulled |-> pulled]
    ELSE LET item == Head(remote_items)
         IN  IF has_item_with_hash(tbl, item.content_hash)
             THEN pull_remote(tbl, Tail(remote_items), pulled)
             ELSE pull_remote(insert_synced_item(tbl, item.id, item.content_hash,
                                                 parse_timestamp(item.created_at)).table,
                              Tail(remote_items), pulled + 1)

\* the push loop (history_sync.rs:63-82): every local item whose hash the
\* pulled page does not hold is posted; the first okPushes requests reach
\* the server, which inserts as POST /api/sync/history does
\* (routes/sync.rs:188-211); a push that fails is printed and skipped
RECURSIVE push_local(_, _, _, _, _)
push_local(server, local_items, remote_hashes, okPushes, acc) ==
    IF local_items = <<>> THEN [server |-> server, pushed |-> acc.pushed,
                                failed |-> acc.failed]
    ELSE LET l == Head(local_items)
             row == [id |-> l.id, user_id |-> ReconUser,
                     encrypted_blob |-> B64Decode(local_blob(l.id)).bytes,
                     content_hash |-> l.content_hash, device_id |-> ReconDevice,
                     created_at |-> clock]
             result == insert_history(server, row)
         IN  IF l.content_hash \in remote_hashes
             THEN push_local(server, Tail(local_items), remote_hashes, okPushes, acc)
             ELSE IF okPushes = 0
             THEN push_local(server, Tail(local_items), remote_hashes, 0,
                             [acc EXCEPT !.failed = @ + 1])
             ELSE push_local(result.table, Tail(local_items), remote_hashes,
                             okPushes - 1,
                             IF result.ok THEN [acc EXCEPT !.pushed = @ + 1]
                             ELSE [acc EXCEPT !.failed = @ + 1])

\* perform_initial_history_sync (history_sync.rs:13-88): Err when the GET
\* fails, otherwise Ok((pulled, pushed)) whatever the pushes answered
perform_initial_history_sync(local, server, get_ok, okPushes) ==
    IF ~get_ok
    THEN [ok |-> FALSE, local |-> local, server |-> server, pulled |-> 0,
          pushed |-> 0, failed |-> 0]
    ELSE LET remote_items == server_get_history(server, ReconUser, 200)
             pull == pull_remote(local, remote_items, 0)
             remote_hashes == {remote_items[i].content_hash : i \in 1..Len(remote_items)}
             local_items == get_unpromoted_encrypted_items(pull.table, HistoryPage)
             push == push_local(server, local_items, remote_hashes, okPushes,
                                [pushed |-> 0, failed |-> 0])
         IN  [ok |-> TRUE, local |-> pull.table, server |-> push.server,
              pulled |-> pull.pulled, pushed |-> push.pushed, failed |-> push.failed]

\* the last run returned Ok, every push it made was accepted, and neither
\* store has changed since; lastHistSync keeps the two stores as such a run
\* left them
SuccessfulRunJustEnded ==
    /\ lastHistSync.run # 0
    /\ lastHistSync.ok /\ lastHistSync.failed = 0
    /\ items = lastHistSync.local
    /\ synced_history = lastHistSync.remote

\* one run of the history reconciler for the logged-in client, while no
\* device of its user is subscribed to the relay (the reconciler runs
\* before the WebSocket is opened, manager.rs:188-242), so that the rows
\* the server inserts are published to nobody
HistorySync(get_ok, okPushes) ==
    /\ auth # None /\ history_sync_enabled
    /\ ReconUser \notin user_channels
    /\ LET st == perform_initial_history_sync(items, synced_history, get_ok, okPushes)
       IN  /\ items' = st.local
           /\ synced_history' = st.server
           /\ lastHistSync' =
                 [run |-> 1,
                  ok |-> st.ok, pulled |-> st.pulled, pushed |-> st.pushed,
                  failed |-> st.failed,
                  local |-> IF st.ok /\ st.failed = 0 THEN st.local ELSE {},
                  remote |-> IF st.ok /\ st.failed = 0 THEN st.server ELSE {},
                  rerun |-> SuccessfulRunJustEnded,
                  first_pulled |-> lastHistSync.pulled,
                  first_pushed |-> lastHistSync.pushed]
    /\ UNCHANGED <<clientVars, slots, clock, history_limit, lastInsert, reconVars,
                   user_channels, conns, synced_slots, lastResp, npub, linkVars,
                   cryptoVars, vaultVars, incoming, owners, tasks, pc2>>

\* ---- the incoming channel of the connection held ------------------------

\* messages the handler's receiver retains: broadcast::channel::<WsMessage>(64)
\* in the code (ws_client.rs:29), scaled down so that the handler can fall
\* behind within MaxFrames messages
IncomingCapacity == 2
\* messages the receive task of one connection parses in one behaviour
MaxFrames == 4

\* incoming_tx_clone.send(msg) of the receive task (ws_client.rs:71), seen
\* from the handler's receiver: a receiver already holding IncomingCapacity
\* messages loses its oldest one and is marked lagged (tokio broadcast)
incoming_send(ch, msg) ==
    IF Len(ch.frames) = IncomingCapacity
    THEN [ch EXCEPT !.frames = Append(Tail(@), msg), !.lagged = TRUE,
                    !.received = @ + 1, !.missed = @ + 1]
    ELSE [ch EXCEPT !.frames = Append(@, msg), !.received = @ + 1]

\* a plausible bug: a blob that does not decode is stored as it came
on_slot_updated_keep_undecoded(tbl, msg, device) ==
    LET blob_bytes == B64Decode(msg.encrypted_blob)
    IN  save_encrypted_to_slot(tbl, msg.slot_number,
                               IF blob_bytes.ok THEN blob_bytes.bytes
                               ELSE msg.encrypted_blob.data,
                               msg.timestamp, device)

\* the handler's arm for WsMessage::SlotUpdated (manager.rs:284-313)
on_slot_updated(tbl, msg, device) ==
    LET blob_bytes == B64Decode(msg.encrypted_blob)
    IN  IF blob_bytes.ok
        THEN save_encrypted_to_slot(tbl, msg.slot_number, blob_bytes.bytes,
                                    msg.timestamp, device)
        ELSE tbl

\* the handler's arm for WsMessage::HistoryNew (manager.rs:314-337)
on_history_new(tbl, msg, now) ==
    IF B64Decode(msg.encrypted_blob).ok
    THEN insert_synced_item(tbl, msg.id, msg.content_hash, now)
    ELSE [inserted |-> FALSE, table |-> tbl]

\* what the match of the handler does with a message (manager.rs:283-345):
\* the two arms that store, when the blob decodes, or nothing (a blob that
\* does not decode, WsMessage::Error, and `_` for every other type)
handler_arm(msg) ==
    IF msg.type \in {"slot_updated", "history_new"} /\ B64Decode(msg.encrypted_blob).ok
    THEN "applied"
    ELSE "ignored"

\* the receive task of the connection held parses a text frame of the
\* server and broadcasts it (ws_client.rs:62-76); without a receiver the
\* send fails and the message is dropped (`let _ =`)
RecvFrame(msg) ==
    /\ ws # None
    /\ connGen \in tasks.readers
    /\ incoming.received < MaxFrames
    /\ incoming' = IF Len(HandlersOf(connGen)) > 0
                   THEN incoming_send(incoming, msg)
                   ELSE [incoming EXCEPT !.received = @ + 1]
    /\ UNCHANGED <<clientVars, localVars, reconVars, serverVars, linkVars, cryptoVars,
                   vaultVars, lastHistSync, owners, tasks, pc2>>

\* the incoming handler of the connection held, one rx.recv().await of its
\* loop `while let Ok(msg) = rx.recv().await` (manager.rs:280-347): a
\* message is applied to the local store; on Err(Lagged) the pattern does
\* not match, the loop is left and the task ends, dropping its receiver
HandlerRecv ==
    /\ ws # None
    /\ Len(HandlersOf(connGen)) > 0
    /\ incoming.lagged \/ incoming.frames # <<>>
    /\ IF incoming.lagged
       THEN /\ handlers' = SelectSeq(handlers, LAMBDA h : h # connGen)
            /\ incoming' = [incoming EXCEPT !.frames = <<>>, !.lagged = FALSE]
            /\ UNCHANGED <<slots, items, lastInsert>>
       ELSE LET msg == Head(incoming.frames)
            IN  /\ slots' = IF msg.type = "slot_updated"
                             THEN on_slot_updated(slots, msg, AuthStates[auth].device_id)
                             ELSE slots
                /\ IF msg.type = "history_new" /\ handler_arm(msg) = "applied"
                   THEN LET res == on_history_new(items, msg, NowMs)
                        IN  /\ items' = res.table
                            /\ lastInsert' = InsertRecord(1 - lastInsert.seq, "synced",
                                                          res.inserted)
                   ELSE UNCHANGED <<items, lastInsert>>
                /\ incoming' = [incoming EXCEPT
                                    !.frames = Tail(@), !.taken = @ + 1,
                                    !.ignored = IF handler_arm(msg) = "ignored"
                                                THEN @ + 1 ELSE @,
                                    !.last = handler_arm(msg)]
                /\ UNCHANGED handlers
    /\ UNCHANGED <<auth, ws, status, offline_queue, history_sync_enabled,
                   writerAlive, outgoing, serverRecv, pc, messages, idx, nops,
                   qlog, drainLog, flushSent, flushFailedAt, connGen>>
    /\ UNCHANGED <<sendFailed, persisted, boots>>
    /\ UNCHANGED <<clock, history_limit, reconVars, serverVars, linkVars, cryptoVars,
                   vaultVars, lastHistSync, owners, tasks, pc2>>

\* the wall clock advances
Tick ==
    /\ clock < MaxClock
    /\ clock' = clock + 1
    /\ UNCHANGED <<clientVars, slots, histVars, reconVars, serverVars, linkVars, deviceVars>>

----------------------------------------------------------------------------
(* Relay server: link codes for key exchange (routes/key_exchange.rs,      *)
(* main.rs).                                                               *)

\* the time to live of a link code: Duration::from_secs(300), in minutes
LinkTtl == 5
\* the latest instant of the server's clock, in minutes
MaxLinkTime == 7
\* link-code requests handled in one behaviour
MaxLinkOps == 3

\* a code is a string, here the sequence of its characters
Digits == {"0", "1", "2", "3", "4", "5", "6", "7", "8", "9"}
\* the codes generate_link_code draws in this model (format!("{:06}", ..))
LinkCodes == { <<"1", "2", "3", "4", "5", "6">>, <<"0", "0", "7", "7", "0", "0">> }
\* a well-formed code that generate_link_code never draws in this model
UnknownCode == <<"9", "9", "9", "9", "9", "9">>
AllCodes == LinkCodes \cup {UnknownCode}
\* what a redeem request can carry: codes, a code with blanks around it,
\* and strings that are not six digits
RedeemInputs ==
    AllCodes \cup { <<" ", "1", "2", "3", "4", "5", "6", " ">>,
                    <<"1", "2", "3", "4", "5">>,
                    <<"1", "2", "3", "4", "5", "x">> }
\* the encrypted keys a generate request can carry; "" is the empty string
LinkKeys == {"KEY:1", "KEY:2", ""}

\* str::trim: the string without its leading and trailing blanks
RECURSIVE trim(_)
trim(str) ==
    IF str = <<>> THEN str
    ELSE IF Head(str) = " " THEN trim(Tail(str))
    ELSE IF str[Len(str)] = " " THEN trim(SubSeq(str, 1, Len(str) - 1))
    ELSE str

\* code.len() == 6 && code.chars().all(|c| c.is_ascii_digit())
is_six_digits(code) == Len(code) = 6 /\ \A i \in 1..Len(code) : code[i] \in Digits

\* no entry in link_codes for a code
NoCode == [present |-> FALSE, encrypted_key |-> None, created_at |-> 0]

\* created_at.elapsed()
elapsed(created_at) == lnow - created_at

\* link_codes.insert(code, (encrypted_key, now))
link_insert(tbl, code, key, now) ==
    [tbl EXCEPT ![code] = [present |-> TRUE, encrypted_key |-> key, created_at |-> now]]

\* a plausible bug: the entry is read and left in the map
link_remove_keep(tbl, code) == tbl

\* link_codes.remove(&code): the map without the entry
link_remove(tbl, code) == [tbl EXCEPT ![code] = NoCode]

\* codes.retain(|_, (_, created_at)| created_at.elapsed() < 300 s)
link_retain(tbl) ==
    [c \in DOMAIN tbl |->
        IF tbl[c].present /\ elapsed(tbl[c].created_at) < LinkTtl THEN tbl[c] ELSE NoCode]

\* what a link-code request answered
LinkResponse(op, code, code_status, key, user) ==
    [op |-> op, code |-> code, status |-> code_status, key |-> key, by |-> user]
NoLinkResponse == LinkResponse("none", <<>>, None, None, None)

\* per code: whether it was ever generated, when and by whom it was last
\* generated, and since then whether a redeem was tried and how many
\* redeems returned the key
NoCodeLog == [generated |-> FALSE, created_at |-> 0, by |-> None, tried |-> FALSE, ok |-> 0]

\* POST /link-code, generate_link_code (routes/key_exchange.rs:52-75), the
\* random draw giving code
GenerateLinkCode(tok, key, code) ==
    /\ nlink < MaxLinkOps
    /\ nlink' = nlink + 1
    /\ IF key = ""
       THEN /\ lastLink' = LinkResponse("generate", <<>>, "400", None, tok.sub)
            /\ UNCHANGED <<link_codes, codeLog>>
       ELSE /\ link_codes' = link_insert(link_codes, code, key, lnow)
            /\ lastLink' = LinkResponse("generate", code, "200", None, tok.sub)
            /\ codeLog' = [codeLog EXCEPT ![code] =
                              [generated |-> TRUE, created_at |-> lnow, by |-> tok.sub,
                               tried |-> FALSE, ok |-> 0]]
    /\ UNCHANGED lnow
    /\ UNCHANGED <<clientVars, localVars, reconVars, serverVars, deviceVars>>

\* POST /redeem-code, redeem_link_code (routes/key_exchange.rs:79-102)
RedeemLinkCode(tok, input) ==
    /\ nlink < MaxLinkOps
    /\ nlink' = nlink + 1
    /\ LET code == trim(input)
       IN  IF ~is_six_digits(code)
           THEN /\ lastLink' = LinkResponse("redeem", code, "400", None, tok.sub)
                /\ UNCHANGED <<link_codes, codeLog>>
           ELSE LET entry == link_codes[code]
                    answer == IF ~entry.present THEN "404"
                              ELSE IF elapsed(entry.created_at) > LinkTtl THEN "410"
                              ELSE "200"
                IN  /\ link_codes' = link_remove(link_codes, code)
                    /\ lastLink' = LinkResponse("redeem", code, answer,
                                                IF answer = "200" THEN entry.encrypted_key
                                                ELSE None,
                                                tok.sub)
                    /\ codeLog' = [codeLog EXCEPT ![code].tried = TRUE,
                                                  ![code].ok = @ + (IF answer = "200" THEN 1 ELSE 0)]
    /\ UNCHANGED lnow
    /\ UNCHANGED <<clientVars, localVars, reconVars, serverVars, deviceVars>>

\* the TTL cleanup task, one round (main.rs:127-139)
SweepLinkCodes ==
    /\ link_codes' = link_retain(link_codes)
    /\ UNCHANGED <<lnow, lastLink, nlink, codeLog>>
    /\ UNCHANGED <<clientVars, localVars, reconVars, serverVars, deviceVars>>

\* a minute passes
LinkTick ==
    /\ lnow < MaxLinkTime
    /\ lnow' = lnow + 1
    /\ UNCHANGED <<link_codes, lastLink, nlink, codeLog>>
    /\ UNCHANGED <<clientVars, localVars, reconVars, serverVars, deviceVars>>

----------------------------------------------------------------------------
(* Initial states.                                                         *)

\* SyncManager::new (manager.rs:31-48); try_restore_auth (manager.rs:50-77)
\* restores the session of a, if one was persisted
ClientInit(a, hse) ==
    /\ persisted = IF a = None THEN NoSettings ELSE persist_auth(NoSettings, AuthStates[a])
    /\ auth = try_restore_auth(persisted)
    /\ sendFailed = FALSE
    /\ handlers = <<>>
    /\ boots = 0
    /\ ws = None
    /\ status = "Disconnected"
    /\ offline_queue = <<>>
    /\ history_sync_enabled = hse
    /\ writerAlive = FALSE
    /\ outgoing = <<>>
    /\ serverRecv = <<>>
    /\ pc = "idle"
    /\ messages = <<>>
    /\ idx = 1
    /\ nops = 0
    /\ qlog = <<>>
    /\ drainLog = <<>>
    /\ flushSent = <<>>
    /\ flushFailedAt = 0
    /\ connGen = 0

\* run_migrations pre-populates empty slots with updated_at 0
\* (storage/database.rs:81-87)
\* run_migrations creates an empty clipboard_items table and sets
\* history_limit to the default (storage/database.rs:34-70)
HistInit ==
    /\ items = {}
    /\ history_limit = "500"
    /\ lastInsert = NoInsert

LocalInit ==
    /\ slots = [n \in SlotNumbers |-> [content |-> None, updated_at |-> 0]]
    /\ clock = 0
    /\ HistInit

ReconInit ==
    /\ lastSync = NoSync

ServerInit ==
    /\ user_channels = {}
    /\ conns = [c \in ConnIds |-> FreeConn]
    /\ synced_history = {}
    /\ synced_slots = [k \in Users \X SlotNumbers |-> NoRow]
    /\ lastResp = NoResponse
    /\ npub = 0

\* main (main.rs:121-122): an empty map of link codes
LinkInit ==
    /\ link_codes = [c \in AllCodes |-> NoCode]
    /\ lnow = 0
    /\ lastLink = NoLinkResponse
    /\ nlink = 0
    /\ codeLog = [c \in AllCodes |-> NoCodeLog]

\* CryptoEngine::new with the key k (crypto/cipher.rs:15-18)
CryptoInit(k) ==
    /\ master_key = k
    /\ plaintext = <<>>
    /\ stored = <<>>
    /\ opened = NoResult

\* run_migrations pre-populates the slots, none linked to an item
\* (storage/database.rs:81-87)
NoCall == Call("none", 0, NoItem, FALSE, Nothing, FALSE)
VaultInit ==
    /\ slot_rows = [n \in SlotNumbers |-> [item_id |-> NoItem, updated_at |-> 0]]
    /\ lastCall = NoCall

\* no run of the history reconciler yet
NoHistSync == [run |-> 0, ok |-> FALSE, pulled |-> 0, pushed |-> 0, failed |-> 0,
               local |-> {}, remote |-> {}, rerun |-> FALSE, first_pulled |-> 0,
               first_pushed |-> 0]
DeviceInit ==
    /\ CryptoInit(1)
    /\ VaultInit
    /\ lastHistSync = NoHistSync
    /\ incoming = NewIncoming
    /\ owners = NoOwners
    /\ tasks = NoTasks /\ pc2 = "idle"

----------------------------------------------------------------------------
(* The client: Offline Queue and Sync Manager.                             *)

\* the history_sync_enabled setting is an input: either value, fixed for
\* the behaviour
InitClient ==
    /\ \E b \in BOOLEAN : ClientInit(None, b)
    /\ LocalInit /\ ServerInit /\ ReconInit /\ LinkInit /\ DeviceInit

NextClient ==
    \/ \E a \in Accounts : Login(a)
    \/ Logout
    \/ \E n \in SlotNumbers : SaveToSlot(n)
    \/ \E h \in ClientHashes : NotifyHistoryPush(h)
    \/ ConnectWsStart
    \/ ConnectWsOpen
    \/ ConnectWsFail
    \/ ConnectWsNoAuth
    \/ FlushDrain
    \/ FlushLock
    \/ FlushSendOk
    \/ FlushSendFail
    \/ WriterForward
    \/ WriterFail

SpecClient == InitClient /\ [][NextClient]_vars

----------------------------------------------------------------------------
(* The slot reconciler against the server's slot table.                    *)

\* the states a local slot can be in: empty with updated_at 0
\* (storage/database.rs:81-87, 438-445), or holding a ciphertext saved at
\* some millisecond up to now
LocalSlotStates ==
    {[content |-> None, updated_at |-> 0]} \cup
    {[content |-> Encrypted(1), updated_at |-> t] : t \in 0..(MaxClock \div TicksPerMs)}

\* the states a row of the server's synced_slots can be in: missing, or
\* holding a ciphertext another device of the user stored at some instant
\* up to now
RemoteRowStates ==
    {NoRow} \cup
    {[present |-> TRUE, encrypted_blob |-> Encrypted(k), updated_at |-> t,
      updated_by |-> "d2"] : k \in 1..2, t \in 0..MaxClock}

\* the reconciler starts from any local store and any server table of its
\* user, in a client with a restored session and history sync switched off
InitRecon ==
    /\ ClientInit("A", FALSE)
    /\ clock = MaxClock
    /\ slots \in [SlotNumbers -> LocalSlotStates]
    /\ HistInit
    /\ user_channels = {}
    /\ conns = [c \in ConnIds |-> FreeConn]
    /\ synced_history = {}
    /\ \E rows \in [SlotNumbers -> RemoteRowStates] :
          synced_slots = [k \in Users \X SlotNumbers |->
                             IF k[1] = ReconUser THEN rows[k[2]] ELSE NoRow]
    /\ lastResp = NoResponse
    /\ npub = 0
    /\ ReconInit /\ LinkInit /\ DeviceInit

NextRecon ==
    \E okCalls \in 0..(MaxSlot + 1) : StartSync(okCalls)

SpecRecon == InitRecon /\ [][NextRecon]_vars

----------------------------------------------------------------------------
(* The relay server.                                                       *)

InitServer ==
    /\ ClientInit(None, FALSE) /\ LocalInit /\ ServerInit /\ ReconInit /\ LinkInit /\ DeviceInit

NextServer ==
    \/ \E tok \in Tokens : WsHandler(tok)
    \/ \E c \in ConnIds : Forward(c)
    \/ \E c \in ConnIds : ClientClose(c)
    \/ \E c \in ConnIds, n \in RequestSlots : WsSlotUpdate(c, n, FreshBlob, NowMs)
    \/ \E c \in ConnIds, item \in HistoryItems : WsHistoryPush(c, item, FreshBlob)
    \/ \E tok \in DeviceTokens, n \in RequestSlots : HttpUpdateSlot(tok, n, FreshBlob)
    \/ \E tok \in DeviceTokens, item \in HistoryItems : HttpPushHistory(tok, item, FreshBlob)

SpecServer == InitServer /\ [][NextServer]_vars

\* the forwarding task of a connection is a tokio task of its own: it is
\* scheduled whenever its receiver has something for it
FairSpecServer == SpecServer /\ \A c \in ConnIds : WF_vars(Forward(c))

----------------------------------------------------------------------------
(* The relay server's link codes.                                          *)

\* the tokens link-code requests bear: one of each user
LinkTokens == {create_token("u1", "d1"), create_token("u2", "d3")}

InitLink ==
    /\ ClientInit(None, FALSE) /\ LocalInit /\ ServerInit /\ ReconInit /\ LinkInit /\ DeviceInit

NextLink ==
    \/ \E tok \in LinkTokens, key \in LinkKeys, code \in LinkCodes :
          GenerateLinkCode(tok, key, code)
    \/ \E tok \in LinkTokens, input \in RedeemInputs : RedeemLinkCode(tok, input)
    \/ SweepLinkCodes
    \/ LinkTick

SpecLink == InitLink /\ [][NextLink]_vars

----------------------------------------------------------------------------
(* The relay server under requests that must be refused.                   *)

\* the tokens of user u1: those of its two devices and the user token
ApiTokens == {t \in Tokens : t.sub = "u1"}
\* slot numbers below, within and above the range the server accepts
ApiSlots == {0, 1, SlotLimit + 1}
ApiBlobs == {FreshBlob, BadBlob}

\* ChannelCapacity + 1 slot writes of device d2 published while the
\* forwarding task of d1's connection did not run
RECURSIVE publish_times(_, _, _)
publish_times(cs, key, k) ==
    IF k = 0 THEN cs
    ELSE publish_times(publish(cs, key,
                               Frame("d2",
                                     SlotUpdated(1, B64Encode(Encrypted(Len(CipherNames))),
                                                 "d2", 0),
                                     key, 0)),
                       key, k - 1)

\* the connections of a server on which d1 connected, fell more than
\* ChannelCapacity frames behind and had its forwarding task end on the
\* lag (routes/ws.rs:85), as WsHandler, publish and Forward leave them
LaggedOutConns ==
    LET key == get_or_create_channel("u1")
        c0 == [c \in ConnIds |->
                  IF c = "d1"
                  THEN [FreeConn EXCEPT !.used = TRUE, !.user = "u1", !.device = "d1",
                                        !.chan = key, !.fwd = TRUE, !.inb = TRUE]
                  ELSE FreeConn]
        c1 == publish_times(c0, key, ChannelCapacity + 1)
    IN  [c1 EXCEPT !["d1"] = [c1["d1"] EXCEPT !.fwd = FALSE, !.rx = <<>>, !.direct = <<>>]]

\* the server starts empty, or past an overflow of d1's receiver
InitApi ==
    /\ ClientInit(None, FALSE) /\ LocalInit /\ ReconInit /\ LinkInit /\ DeviceInit
    /\ synced_history = {}
    /\ lastResp = NoResponse
    /\ npub = 0
    /\ \/ /\ user_channels = {}
          /\ conns = [c \in ConnIds |-> FreeConn]
          /\ synced_slots = [k \in Users \X SlotNumbers |-> NoRow]
       \/ /\ user_channels = {get_or_create_channel("u1")}
          /\ conns = LaggedOutConns
          /\ synced_slots = upsert_slot([k \in Users \X SlotNumbers |-> NoRow], "u1", 1,
                                        Encrypted(Len(CipherNames)), "d2", 0)

NextApi ==
    \/ \E tok \in ApiTokens : WsHandler(tok)
    \/ \E c \in ConnIds : Forward(c)
    \/ \E c \in ConnIds : ForwardDirect(c)
    \/ \E c \in ConnIds : ClientClose(c)
    \/ \E c \in ConnIds, n \in ApiSlots, blob \in ApiBlobs : WsSlotUpdate(c, n, blob, NowMs)
    \/ \E tok \in ApiTokens, n \in ApiSlots, blob \in ApiBlobs : HttpUpdateSlot(tok, n, blob)
    \/ \E tok \in ApiTokens, item \in HistoryItems, blob \in ApiBlobs :
          HttpPushHistory(tok, item, blob)
    \/ \E c \in ConnIds, item \in HistoryItems, blob \in ApiBlobs :
          WsHistoryPush(c, item, blob)
    \/ \E c \in ConnIds : WsInvalidMessage(c)

SpecApi == InitApi /\ [][NextApi]_vars

----------------------------------------------------------------------------
(* The history reconciler between the local store and the server.          *)

\* a capture of the other device of the user, as it pushes it: of a
\* plaintext this device may capture too
RemoteCaptures ==
    { [id |-> 101, owner |-> ReconUser, content_hash |-> "hash_a"] }

\* the plaintexts this device captures
SyncHashes == {"hash_a", "hash_b"}

\* a client with a restored session and history sync switched on, an empty
\* local history and an empty server table
InitHistSync ==
    /\ ClientInit("A", TRUE) /\ LocalInit /\ ServerInit /\ ReconInit /\ LinkInit /\ DeviceInit

NextHistSync ==
    \/ Tick
    \/ \E h \in SyncHashes : Capture(h)
    \/ \E item \in RemoteCaptures :
          HttpPushHistory(create_token(ReconUser, "d2"), item, FreshBlob)
    \/ \E get_ok \in BOOLEAN, okPushes \in 0..HistoryPage : HistorySync(get_ok, okPushes)

SpecHistSync == InitHistSync /\ [][NextHistSync]_vars

----------------------------------------------------------------------------
(* The incoming channel of the client's connection.                        *)

\* the frames the server can send: slot_updated and history_new frames
\* another device of the user caused, with a ciphertext or a blob that is not
\* base64, an error frame, and frames of the client-to-server types
IncomingFrames ==
    {SlotUpdated(1, blob, "d2", 0) :
        blob \in {B64Encode(Encrypted(1)), B64Encode(Encrypted(2)), BadBlob}}
    \cup {HistoryNew(101, B64Encode(Encrypted(1)), "hash_a", "d2"),
          ErrorMsg("Invalid message"),
          SlotUpdate(1, B64Encode(Encrypted(1)), 0),
          HistoryPush(101, B64Encode(Encrypted(1)), "hash_a")}

\* a client with a restored session and an empty local store
InitIncoming ==
    /\ ClientInit("A", FALSE) /\ LocalInit /\ ServerInit /\ ReconInit /\ LinkInit /\ DeviceInit

NextIncoming ==
    \/ ConnectWsStart
    \/ ConnectWsOpen
    \/ FlushDrain
    \/ \E msg \in IncomingFrames : RecvFrame(msg)
    \/ HandlerRecv
    \/ \E c \in 1..MaxConnects : ReaderEnd(c)
    \/ \E i \in 1..MaxConnects : HandlerEnd(i)

SpecIncoming == InitIncoming /\ [][NextIncoming]_vars

----------------------------------------------------------------------------
(* The local slots under local saves, relay ingests and reconciles.        *)

\* the frames another device of the user can have caused: a ciphertext or a
\* blob that is not base64, for a slot, stamped with a millisecond up to now;
\* the specification works on the slots of RequestSlots
IncomingBlobs == {B64Encode(Encrypted(Len(CipherNames))), BadBlob}

\* a client with a restored session, an empty local store and an empty
\* server table
InitStore ==
    /\ ClientInit("A", FALSE) /\ LocalInit /\ ServerInit /\ ReconInit /\ LinkInit /\ DeviceInit

\* the other device of the client's user writes a slot over HTTP
OtherDeviceToken == create_token(ReconUser, "d2")

NextStore ==
    \/ Tick
    \/ \E n \in RequestSlots : SaveToSlot(n)
    \/ ConnectWsStart
    \/ ConnectWsOpen
    \/ FlushDrain
    \/ FlushLock
    \/ FlushSendOk
    \/ \E n \in RequestSlots, blob \in IncomingBlobs, t \in 0..NowMs :
          HandleSlotUpdated(n, blob, t)
    \/ \E n \in RequestSlots : HttpUpdateSlot(OtherDeviceToken, n, FreshBlob)
    \/ \E okCalls \in {0, MaxSlot + 1} : StartSync(okCalls)

SpecStore == InitStore /\ [][NextStore]_vars

----------------------------------------------------------------------------
(* The local history under captures, relay ingests and retention.          *)

CaptureHashes == {"hash_a", "hash_b"}
\* history_new frames of another device: an id and a content hash, one the
\* device captures too or one of its own
RemoteItemIds == {101}
RemoteHashes == {"hash_a", "hash_r"}

InitHistory ==
    /\ ClientInit("A", TRUE) /\ LocalInit /\ ServerInit /\ ReconInit /\ LinkInit /\ DeviceInit

NextHistory ==
    \/ Tick
    \/ \E h \in CaptureHashes : Capture(h)
    \/ \E n \in RequestSlots : SaveToSlot(n)
    \/ \E v \in LimitValues : UpdateSetting(v)
    \/ ConnectWsStart
    \/ ConnectWsOpen
    \/ FlushDrain
    \/ FlushLock
    \/ FlushSendOk
    \/ \E id \in RemoteItemIds, h \in RemoteHashes : HandleHistoryNew(id, h)

SpecHistory == InitHistory /\ [][NextHistory]_vars

----------------------------------------------------------------------------
(* The crypto envelope on its own: values are encrypted, read and decrypted *)
(* by an engine whose key can be replaced by the key of another device.     *)

InitCrypto ==
    /\ \E k \in MasterKeys : CryptoInit(k)
    /\ VaultInit /\ lastHistSync = NoHistSync /\ incoming = NewIncoming
    /\ owners = NoOwners
    /\ tasks = NoTasks /\ pc2 = "idle"
    /\ ClientInit(None, FALSE) /\ LocalInit /\ ServerInit /\ ReconInit
    /\ LinkInit

NextCrypto ==
    \/ \E text \in Plaintexts, nonce_bytes \in Nonces : Encrypt(text, nonce_bytes)
    \/ Decrypt
    \/ \E value \in LegacyValues : LoadLegacy(value)
    \/ \E k \in MasterKeys : ImportKey(k)

SpecCrypto == InitCrypto /\ [][NextCrypto]_vars

----------------------------------------------------------------------------
(* The local store under the commands of the application: captures, slot   *)
(* saves, reads, deletions, and a restart with the key of another device.  *)

\* the slot numbers the commands are given: a slot there is and one that
\* has no row
CommandSlots == {1, MaxSlot + 1}
\* the ids of the items of one behaviour
ItemIds == 1..MaxOps

InitVault ==
    /\ CryptoInit(1) /\ VaultInit /\ lastHistSync = NoHistSync /\ incoming = NewIncoming
    /\ owners = NoOwners
    /\ tasks = NoTasks /\ pc2 = "idle"
    /\ ClientInit(None, FALSE) /\ LocalInit /\ ServerInit /\ ReconInit
    /\ LinkInit

NextVault ==
    \/ \E n \in CommandSlots, text \in ClipboardTexts : SaveToSlotCall(n, text)
    \/ \E text \in ClipboardTexts : CaptureText(text)
    \/ \E n \in CommandSlots, id \in ItemIds : SaveItemToSlotCall(n, id)
    \/ \E n \in CommandSlots : GetSlotCall(n)
    \/ \E id \in ItemIds, foreign_keys \in BOOLEAN : DeleteItemCall(id, foreign_keys)
    \/ \E n \in CommandSlots : ClearSlotCall(n)
    \/ \E k \in MasterKeys : ImportKey(k)

SpecVault == InitVault /\ [][NextVault]_vars

----------------------------------------------------------------------------
(* The session of the client: login, logout, connect_ws and restarts.      *)

\* the application starts without a persisted session or with the session
\* of an account
InitSession ==
    /\ \E a \in SessionAccounts \cup {None} : ClientInit(a, FALSE)
    /\ LocalInit /\ ServerInit /\ ReconInit /\ LinkInit /\ DeviceInit

NextSession ==
    \/ \E a \in SessionAccounts : Login(a)
    \/ Logout
    \/ ConnectWsStart
    \/ ConnectWsOpen
    \/ ConnectWsFail
    \/ ConnectWsNoAuth
    \/ \E n \in SlotNumbers : SaveToSlot(n)
    \/ FlushDrain
    \/ FlushLock
    \/ FlushSendOk
    \/ \E c \in 1..MaxConnects : ReaderEnd(c)
    \/ \E i \in 1..MaxConnects : HandlerEnd(i)
    \/ Restart

SpecSession == InitSession /\ [][NextSession]_vars

----------------------------------------------------------------------------
(* Claims about the Offline Queue and the flush (SpecClient).              *)

SlotUpdatesFor(q, n) == SelectSeq(q, LAMBDA e : IsSlotUpdateFor(e, n))
HistoryPushes(q) == SelectSeq(q, LAMBDA e : e.type = "history_push")
LastOf(q) == q[Len(q)]

\* what a log of enqueued messages amounts to: every history push, and of
\* the slot updates of a slot only the last one, in the order of the log
RECURSIVE Dedup(_)
Dedup(log) ==
    IF log = <<>> THEN <<>>
    ELSE LET h == Head(log)
             t == Tail(log)
         IN  IF h.type = "slot_update"
                /\ \E i \in 1..Len(t) : IsSlotUpdateFor(t[i], h.slot_number)
             THEN Dedup(t)
             ELSE <<h>> \o Dedup(t)

\* the frames of the current connection's flush that reached the server
RecvFromFlush ==
    LET fs == SelectSeq(serverRecv, LAMBDA f : f.via = "flush" /\ f.conn = connGen)
    IN  [i \in 1..Len(fs) |-> fs[i].msg]

\* C1: after any sequence of enqueues and drains the queue holds at most one
\* slot_update per slot number, and it is the slot_update enqueued last for
\* that slot; a drain that follows enqueue(slot_update(n,a)) and
\* enqueue(slot_update(n,b)) returns slot_update(n,b) alone for slot n.
C1_AtMostOneLatestSlotUpdate ==
    \A n \in SlotNumbers :
        /\ Len(SlotUpdatesFor(offline_queue, n)) <= 1
        /\ SlotUpdatesFor(offline_queue, n) =
              IF SlotUpdatesFor(qlog, n) = <<>> THEN <<>>
              ELSE <<LastOf(SlotUpdatesFor(qlog, n))>>
        /\ pc \in {"lock", "send"} =>
              SlotUpdatesFor(messages, n) =
                  IF SlotUpdatesFor(drainLog, n) = <<>> THEN <<>>
                  ELSE <<LastOf(SlotUpdatesFor(drainLog, n))>>

\* C1 witness: a drain has just returned the single, latest slot_update of a
\* slot that was enqueued twice.
C1_Witness ==
    /\ pc = "lock"
    /\ \E n \in SlotNumbers :
          /\ Len(SlotUpdatesFor(drainLog, n)) >= 2
          /\ drainLog[1] # LastOf(drainLog)
          /\ SlotUpdatesFor(messages, n) = <<LastOf(SlotUpdatesFor(drainLog, n))>>

\* C2: drain returns, in enqueue order, every history_push enqueued since the
\* previous drain together with the latest slot_update of each slot, and
\* leaves the queue empty; whatever is enqueued afterwards is in the queue,
\* so a message is in the returned list or in the queue, never in neither
\* and never in both.
C2_DrainReturnsEverything ==
    /\ offline_queue = Dedup(qlog)
    /\ pc \in {"lock", "send"} =>
          /\ messages = Dedup(drainLog)
          /\ HistoryPushes(messages) = HistoryPushes(drainLog)

\* C2 witness: a drain has returned a slot update and a history push in the
\* order they were enqueued and left the queue empty.
C2_Witness ==
    /\ pc = "lock"
    /\ offline_queue = <<>>
    /\ Len(messages) = 2
    /\ messages = drainLog
    /\ HistoryPushes(messages) # <<>>
    /\ \E n \in SlotNumbers : SlotUpdatesFor(messages, n) # <<>>

\* C3: when a send fails while flush_offline_queue sends the drained
\* messages, flushing stops and every drained message that was not sent (the
\* failed one and all after it) is back in the queue in its original order.
C3_UnsentBackInQueue ==
    [][(pc = "send" /\ ~writerAlive /\ pc' = "idle") =>
          LET unsent == SubSeq(messages, idx, Len(messages))
          IN  SelectSeq(offline_queue',
                        LAMBDA e : \E i \in 1..Len(unsent) : unsent[i] = e) = unsent]_vars

\* every message the flush drained was handed to the connection
FlushCompleted == pc = "idle" /\ connGen > 0 /\ Len(flushSent) = Len(Dedup(drainLog))
\* every frame the flush handed to the connection reached the server
FlushDelivered == Len(RecvFromFlush) = Len(flushSent)

----------------------------------------------------------------------------
(* Claims about the slot reconciler (SpecRecon).                           *)

\* the decision table of the reconciler for a local slot l and a remote row
\* r, remote timestamps taken in milliseconds
TableAction(l, r) ==
    CASE l.content = None /\ ~r.present -> "none"
      [] l.content # None /\ ~r.present -> "push"
      [] l.content = None /\ r.present -> "pull"
      [] l.content # None /\ r.present /\ r.updated_at \div TicksPerMs > l.updated_at -> "pull"
      [] l.content # None /\ r.present /\ l.updated_at > r.updated_at \div TicksPerMs -> "push"
      [] OTHER -> "none"

\* both sides hold a ciphertext and their timestamps agree in milliseconds
Tie(l, r) ==
    l.content # None /\ r.present /\ r.updated_at \div TicksPerMs = l.updated_at

\* the ciphertext of a remote row as the local store holds it
RemoteCiphertext(r) == B64Decode(r.encrypted_blob).bytes

\* a step that is a run of the reconciler returning Ok
SyncReturnsOk == lastSync'.run # lastSync.run /\ lastSync'.ok

----------------------------------------------------------------------------
(* Claims about the relay server's broadcast (SpecServer, FairSpecServer). *)

\* the connection's pending frames that are not its own device's
PendingOther(k) == SelectSeq(k.rx, LAMBDA f : f.origin_device # k.device)

\* C7: a WebSocket subscriber is never sent a broadcast frame whose origin
\* device is its own: whatever device D changes over its WebSocket or over
\* HTTP, no connection of D is sent the resulting frame.
C7_NoEchoToOrigin ==
    \A c \in ConnIds :
        \A i \in 1..Len(conns[c].sent) :
            conns[c].sent[i].origin_device # conns[c].device

\* C7 witness: a connection that is still subscribed was sent a frame of
\* another device and then skipped a later frame of its own device, which
\* the connection of the other device was sent.
C7_Witness ==
    \E c, e \in ConnIds :
        /\ c # e
        /\ conns[c].fwd /\ ~conns[c].lagged
        /\ Len(conns[c].sent) = 1 /\ conns[c].rx = <<>>
        /\ \E i \in 1..Len(conns[e].sent) :
              /\ conns[e].sent[i].origin_device = conns[c].device
              /\ conns[e].sent[i].seq > conns[c].sent[1].seq

\* C8 as stated: every frame of a mutation made by another device of the
\* user while the device was connected has been sent to the device or still
\* waits in its receiver, as long as the device stays connected.
C8_EveryConnectedDeviceReceives ==
    \A c \in ConnIds :
        (conns[c].used /\ conns[c].inb) =>
            conns[c].owed = conns[c].sent \o PendingOther(conns[c])

\* a connection that is open, whose forwarding task runs and whose receiver
\* has never held more than ChannelCapacity frames
KeepsUp(k) == k.used /\ k.inb /\ k.fwd /\ ~k.lagged

\* C8 amended: for a connection that keeps up, every frame of a mutation
\* made by another device of the user while the device was connected has
\* been sent to it or waits in its receiver, and again and again all of
\* them have been sent: each one is eventually sent unless the connection
\* closes or lags.
C8_ReceivesUnlessLaggedOrClosed ==
    /\ [](\A c \in ConnIds :
            KeepsUp(conns[c]) => conns[c].owed = conns[c].sent \o PendingOther(conns[c]))
    /\ \A c \in ConnIds :
          []<>(KeepsUp(conns[c]) => conns[c].owed = conns[c].sent)

\* C8 witness: a connected device was sent the frames of a slot mutation
\* and of a history mutation other devices of its user made.
C8_Witness ==
    \E c \in ConnIds :
        /\ conns[c].inb /\ conns[c].fwd
        /\ \E i, j \in 1..Len(conns[c].owed) :
              /\ conns[c].owed[i].payload.type = "slot_updated"
              /\ conns[c].owed[j].payload.type = "history_new"
        /\ conns[c].sent = conns[c].owed

\* C9: a frame published for a mutation of user U is delivered to, and
\* queued for, connections authenticated as U only.
C9_BroadcastIsolation ==
    \A c \in ConnIds :
        /\ \A i \in 1..Len(conns[c].sent) : conns[c].sent[i].of_user = conns[c].user
        /\ \A i \in 1..Len(conns[c].rx) : conns[c].rx[i].of_user = conns[c].user

\* C9 witness: a connection of one user was sent a frame and has stayed
\* subscribed since; a later mutation of another user, whose own connection
\* holds its frame, left the first connection untouched.
C9_Witness ==
    \E c, e \in ConnIds :
        /\ conns[c].used /\ conns[e].used
        /\ conns[c].user # conns[e].user
        /\ conns[c].fwd /\ conns[c].inb
        /\ Len(conns[c].sent) = 1 /\ conns[c].rx = <<>>
        /\ \E i \in 1..Len(conns[e].rx) :
              /\ conns[e].rx[i].of_user = conns[e].user
              /\ conns[e].rx[i].seq > conns[c].sent[1].seq

\* C10: the server holds at most one history row per (user, content_hash);
\* every push reports success, and no push removes or replaces a row, so
\* the row of a (user, content_hash) is the one inserted first.
C10_OneRowPerUserAndHash ==
    /\ [](\A r1, r2 \in synced_history :
            (r1.user_id = r2.user_id /\ r1.content_hash = r2.content_hash) => r1 = r2)
    /\ [](lastResp.op = "push_history" => lastResp.status \in {"201", "ok"})
    /\ [][\A r \in synced_history : r \in synced_history']_vars

\* C10 witness: a push with another id for a (user, content_hash) that has a
\* row reported success and added nothing.
C10_Witness ==
    /\ lastResp.op = "push_history"
    /\ lastResp.status \in {"201", "ok"}
    /\ lastResp.other_id
    /\ lastResp.rows_affected = 0
    /\ Cardinality(synced_history) = 1

----------------------------------------------------------------------------
(* Claims about link codes (SpecLink).                                     *)

\* a step that is a redeem request for the well-formed code c
RedeemStep(c) == nlink' # nlink /\ lastLink'.op = "redeem" /\ lastLink'.code = c

\* C11: a link code is single-use: of the redeems of a code since it was
\* last generated at most one returns the key, the key returned is the one
\* stored and the entry is gone afterwards, and every redeem after a
\* successful one answers 404 until the code is generated again.
C11_LinkCodeSingleUse ==
    /\ [](\A c \in AllCodes : codeLog[c].ok <= 1)
    /\ [][\A c \in AllCodes :
            RedeemStep(c) =>
                /\ codeLog[c].ok >= 1 => lastLink'.status = "404"
                /\ lastLink'.status = "200" =>
                      /\ link_codes[c].present
                      /\ lastLink'.key = link_codes[c].encrypted_key
                      /\ ~link_codes'[c].present]_vars

\* C11 witness: a code was redeemed with success and a later redeem of it
\* answered 404.
C11_Witness ==
    /\ lastLink.op = "redeem"
    /\ lastLink.code \in LinkCodes
    /\ lastLink.status = "404"
    /\ codeLog[lastLink.code].ok = 1

\* C12: the first redeem of a code more than LinkTtl after it was generated
\* answers 410 and returns no key, and a redeem of a code never generated
\* answers 404, whether or not the sweeper has run.
C12_ExpiredIsGoneUnknownIsNotFound ==
    [][\A c \in AllCodes :
          RedeemStep(c) =>
              /\ ~codeLog[c].generated => lastLink'.status = "404"
              /\ (codeLog[c].generated /\ ~codeLog[c].tried
                  /\ lnow - codeLog[c].created_at > LinkTtl) =>
                    lastLink'.status = "410" /\ lastLink'.key = None]_vars

----------------------------------------------------------------------------
(* Claims about start_sync (SpecRecon).                                    *)

\* C13: when start_sync has run its reconcilers, the status is Connected if
\* it returns Ok and Disconnected if it returns the error of a step that
\* failed.
C13_ConnectedOrRevertedToDisconnected ==
    [][lastSync'.run # lastSync.run =>
          IF lastSync'.ok THEN status' = "Connected" ELSE status' = "Disconnected"]_vars


----------------------------------------------------------------------------
(* Claims about connect_ws, login and logout (SpecClient, SpecSession).    *)

\* connect_ws returns after it opened the socket: the flush it ends with
\* is over
ConnectWsReturns == pc \in {"drain", "lock", "send"} /\ pc' = "idle"

ConnectWsPostcondition ==
    /\ status = "Connected"
    /\ Len(HandlersOf(connGen)) = 1
    /\ offline_queue = <<>>
    /\ flushSent = Dedup(drainLog)

LogoutStep == auth # None /\ auth' = None /\ boots' = boots
LoginStep == auth' # None /\ auth' # auth /\ boots' = boots

C16_LoginPersistsAndDisconnected ==
    [][LoginStep =>
          /\ persisted' = persist_auth(NoSettings, AuthStates[auth'])
          /\ try_restore_auth(persisted') = auth'
          /\ status' = "Disconnected"]_vars


----------------------------------------------------------------------------
(* Claims about the local slots (SpecStore).                               *)

\* C17: the updated_at of a local slot never decreases, whatever local
\* saves, incoming slot_updated frames and reconciles follow one another.
C17_UpdatedAtNeverDecreases ==
    [][\A n \in SlotNumbers : slots'[n].updated_at >= slots[n].updated_at]_vars


----------------------------------------------------------------------------
(* Claims about the requests the relay server refuses (SpecApi).           *)

\* the server handles a slot write whose slot number is out of range or
\* whose blob is not base64
InvalidSlotWrite ==
    /\ npub' # npub
    /\ lastResp'.op \in {"http_update_slot", "ws_update_slot"}
    /\ \/ lastResp'.req.slot \notin 1..SlotLimit
       \/ ~B64Decode(lastResp'.req.blob).ok

\* the step puts no frame on a broadcast channel
NothingPublished ==
    \A c \in ConnIds : /\ conns'[c].rx = conns[c].rx
                       /\ conns'[c].owed = conns[c].owed
                       /\ conns'[c].lagged = conns[c].lagged

\* C18: a slot write with a slot number outside 1..10 or a blob that is not
\* base64 stores nothing and publishes nothing; over HTTP it is answered
\* 400, over WebSocket an error frame is put on the way to the sender.
C18_InvalidSlotWriteRejected ==
    [][InvalidSlotWrite =>
          /\ synced_slots' = synced_slots
          /\ NothingPublished
          /\ IF lastResp'.op = "http_update_slot"
             THEN lastResp'.status = "400"
             ELSE LET c == lastResp'.req.sender
                  IN  conns'[c].direct =
                         Append(conns[c].direct,
                                DirectFrame(ErrorMsg(lastResp'.status), conns[c].user))]_vars


\* C19: the sync mutation endpoints require a device-bound token: no slot
\* row and no history row is ever stored for a request without a device,
\* and a slot write bearing a token without device_id is not answered 200.
C19_UserTokenRejected ==
    /\ \A k \in DOMAIN synced_slots :
          synced_slots[k].present => synced_slots[k].updated_by # None
    /\ \A r \in synced_history : r.device_id # None
    /\ (lastResp.op = "http_update_slot" /\ lastResp.req.sender = None)
          => lastResp.status # "200"


----------------------------------------------------------------------------
(* Claims about the local history (SpecHistory).                           *)

\* an insertion of a history item completes, the item having been inserted
InsertStep == lastInsert'.seq # lastInsert.seq /\ lastInsert'.inserted

\* the retention postcondition of an insertion that leaves `after` of
\* `before`: the rows that are not promoted are within the limit, and when
\* the insertion exceeded it they are exactly as many as the limit, the rows
\* gone being rows that were not promoted and no newer than any that stays
Retained(before, after, limit) ==
    /\ get_count(after) <= limit
    /\ get_count(before) + 1 > limit => get_count(after) = limit
    /\ \A d \in before \ after :
          /\ ~d.is_promoted
          /\ \A r \in after : ~r.is_promoted => d.created_at <= r.created_at
    /\ \A r \in before : r.is_promoted => r \in after

\* C20: after every completed insertion of a history item into the local
\* store the items that are not promoted do not exceed the configured
\* limit; an insertion that exceeds it deletes exactly the oldest of them
\* down to the limit, and never a promoted item.
C20_RetentionAfterEveryInsertion ==
    [][InsertStep => Retained(items, items', get_history_limit(history_limit))]_vars


\* a stored item of the hash of `item` was created less than the debounce
\* window before `item`
Debounced(tbl, item) ==
    \E r \in tbl : /\ r.content_hash = item.content_hash
                   /\ item.created_at - r.created_at < DebounceMs

\* the item the clipboard monitor makes of a capture of hash h now
\* (clipboard/item.rs:19-30)
CapturedItem(h) == ClipboardItem(nops + 1, h, NowMs, FALSE)

\* a capture whose insert_item returned false
DebouncedCapture ==
    /\ lastInsert'.seq # lastInsert.seq
    /\ lastInsert'.path = "capture"
    /\ ~lastInsert'.inserted

\* C21: insert_item of an item whose content hash equals that of a stored
\* item created less than 2 seconds earlier returns false and leaves the
\* stored items as they were; otherwise it returns true and the item is
\* upserted by id: it is stored, it is the only row of its id, and the rows
\* of other ids are unchanged.
C21_InsertDebounce ==
    /\ [](\A h \in CaptureHashes :
            LET item == CapturedItem(h)
                res  == insert_item(items, item)
            IN  IF Debounced(items, item)
                THEN ~res.inserted /\ res.table = items
                ELSE /\ res.inserted
                     /\ item \in res.table
                     /\ \A r \in res.table : r.id = item.id => r = item
                     /\ {r \in res.table : r.id # item.id} = {r \in items : r.id # item.id})
    /\ [][DebouncedCapture => items' = items]_vars

\* a capture was debounced: insert_item returned false for it, and the store
\* holds an item of its hash created within the window
C21_Witness ==
    /\ lastInsert.path = "capture" /\ ~lastInsert.inserted
    /\ nops >= 2
    /\ \E r \in items, h \in CaptureHashes :
          r.content_hash = h /\ NowMs - r.created_at < DebounceMs


----------------------------------------------------------------------------
(* Claims about the crypto envelope (SpecCrypto).                          *)

\* the stored value is an output of encrypt for the plaintext under key k
SealedBy(k) == \E nonce_bytes \in Nonces : stored = encrypt(k, nonce_bytes, plaintext).value

\* C25: what encrypt makes of a plaintext starts with the tag ENC: and
\* decrypt under the same key returns the plaintext; decrypt of a stored
\* value that does not start with ENC: returns the value unchanged.
C25_EnvelopeRoundTrip ==
    /\ SealedBy(master_key) =>
          /\ starts_with(stored, ENC_PREFIX)
          /\ opened # NoResult => opened = Ok(plaintext)
    /\ (~starts_with(stored, ENC_PREFIX) /\ opened # NoResult) => opened = Ok(stored)

\* a plaintext that itself starts with the tag was encrypted and decrypted
\* under the key of the engine
C25_Witness ==
    /\ SealedBy(master_key)
    /\ starts_with(plaintext, ENC_PREFIX)
    /\ opened = Ok(plaintext)

\* a legacy value was read and passed through decrypt
C25_WitnessLegacy ==
    /\ ~starts_with(stored, ENC_PREFIX) /\ stored # <<>>
    /\ opened = Ok(stored)


----------------------------------------------------------------------------
(* Claims about the slots of the local store (SpecVault).                  *)

\* the limits and offsets get_history is called with
HistoryLimits == {0, 1, MaxOps}
HistoryOffsets == 0..1

\* C22: after save_to_slot(n, item) succeeds, get_slot(n) returns the
\* content of the item with is_empty false, and get_history, whatever its
\* limit and offset, returns no item of the item's id.
C22_SavedSlotReadsBack ==
    [][\A n \in CommandSlots, text \in ClipboardTexts :
          (SaveToSlotCall(n, text) /\ lastCall'.ok) =>
              /\ get_slot(items', slot_rows', master_key', n).content = Some(text)
              /\ ~get_slot(items', slot_rows', master_key', n).is_empty
              /\ \A limit \in HistoryLimits, offset \in HistoryOffsets :
                    \A q \in get_history(items', master_key', limit, offset) :
                        \A i \in 1..Len(q) : q[i].id # lastCall'.id]_vars

\* save_to_slot succeeded while the history holds a captured item
C22_Witness ==
    /\ lastCall.op = "save_to_slot" /\ lastCall.ok
    /\ slot_rows[lastCall.slot].item_id = lastCall.id
    /\ \E q \in get_history(items, master_key, MaxOps, 0) : Len(q) > 0

\* C23: in every reachable state of the local store and for every slot,
\* get_slot(n).is_empty is true if and only if the slot has no item linked,
\* also when the linked item's ciphertext does not decrypt under the
\* current key and when the linked item's row was deleted.
C23_IsEmptyIffNoItemLinked ==
    \A n \in DOMAIN slot_rows :
        get_slot(items, slot_rows, master_key, n).is_empty
            <=> slot_rows[n].item_id = NoItem


----------------------------------------------------------------------------
(* Claims about history pushes at the relay server (SpecApi).              *)

\* a step that handles a history push, over HTTP or over WebSocket
PushStep == npub' # npub /\ lastResp'.op = "push_history"

\* connection c holds a receiver of the channel stored under key
Subscribed(c, key) == conns[c].used /\ conns[c].fwd /\ conns[c].chan = key

\* the step puts exactly one frame on the channel stored under key, a
\* history_new frame: every receiver of the channel gets it as its newest
\* frame, and only it
OneHistoryNewPublished(key) ==
    \A c \in ConnIds :
        Subscribed(c, key) =>
            LET rx == conns'[c].rx
            IN  /\ rx # <<>>
                /\ rx[Len(rx)].seq = npub'
                /\ rx[Len(rx)].payload.type = "history_new"
                /\ Cardinality({i \in 1..Len(rx) : rx[i].seq = npub'}) = 1
                /\ SubSeq(rx, 1, Len(rx) - 1) =
                      IF Len(conns[c].rx) = ChannelCapacity
                      THEN Tail(conns[c].rx) ELSE conns[c].rx

\* C26: a history push, over HTTP or WebSocket, publishes exactly one
\* history_new frame to the user's channel when its row was inserted, and
\* publishes nothing when a row of the same (user, content_hash) was there.
C26_PushPublishesOnceWhenInserted ==
    [][PushStep =>
          /\ \A row \in synced_history' \ synced_history :
                OneHistoryNewPublished(get_or_create_channel(row.user_id))
          /\ synced_history' = synced_history => NothingPublished]_vars


\* a step that handles a text frame that is no WsMessage
InvalidMessageStep == npub' # npub /\ lastResp'.op = "ws_invalid_message"

\* C27: on a WebSocket text frame that does not parse as a message variant
\* the server puts an error frame on the way to the sending connection and
\* to no other, broadcasts nothing, stores nothing, and keeps the
\* connection open: its receiving task goes on taking frames.
C27_ParseErrorAnsweredNotFatal ==
    [][InvalidMessageStep =>
          LET c == lastResp'.req.sender
          IN  /\ conns'[c].direct =
                    Append(conns[c].direct,
                           DirectFrame(ErrorMsg("Invalid message"), conns[c].user))
              /\ \A d \in ConnIds \ {c} : conns'[d] = conns[d]
              /\ NothingPublished
              /\ synced_slots' = synced_slots /\ synced_history' = synced_history
              /\ conns'[c].used /\ conns'[c].inb]_vars


----------------------------------------------------------------------------
(* Claims about overflow and the lifetime of channels (SpecServer).        *)

\* the frames a connection was sent or still holds in its receiver
SentOrHeld(k) == {k.sent[i] : i \in 1..Len(k.sent)} \cup {k.rx[i] : i \in 1..Len(k.rx)}

\* C28: a subscriber whose backlog overflowed the channel capacity loses
\* only the oldest undelivered frames: its forwarding task is not ended by
\* the overflow, and the frames its receiver retains, those published last,
\* are still sent to it.
C28_OverflowLosesOnlyOldest ==
    [][\A c \in ConnIds :
          (conns[c].used /\ conns[c].fwd /\ conns[c].inb /\ conns[c].lagged
              /\ conns'[c].inb) =>
             /\ conns'[c].fwd
             /\ \A i \in 1..Len(conns[c].rx) :
                   conns[c].rx[i].origin_device # c
                      => conns[c].rx[i] \in SentOrHeld(conns'[c])]_vars


\* no connection of the user is left: every socket opened for the user is
\* closed and no forwarding task holds a receiver of the user's channel
NoSubscriber(u) ==
    \A c \in ConnIds :
       (conns[c].used /\ conns[c].user = u) => (~conns[c].inb /\ ~conns[c].fwd)

\* a connection was opened for the user at some time
EverSubscribed(u) == \E c \in ConnIds : conns[c].used /\ conns[c].user = u

\* C30: a user's broadcast channel is created lazily, by the first
\* subscription of the user, and is reclaimed when idle: once the last
\* subscriber of the user has disconnected, the map eventually holds no
\* entry for the user (or a new subscriber has arrived).
C30_ChannelLazyAndReclaimed ==
    /\ [](\A u \in Users :
            get_or_create_channel(u) \in user_channels => EverSubscribed(u))
    /\ \A u \in Users :
          (EverSubscribed(u) /\ NoSubscriber(u))
             ~> (get_or_create_channel(u) \notin user_channels \/ ~NoSubscriber(u))


----------------------------------------------------------------------------
(* Claims about the client's incoming channel (SpecIncoming).              *)

\* C29: a lag on the client's incoming subscription is not fatal: while the
\* connection is held its incoming handler is running, before and after a
\* lag, and every message the receive task broadcast was applied by the
\* handler, is waiting in its receiver, or is one of the oldest messages
\* the overflow overwrote.
C29_LagNotFatal ==
    ws # None =>
       /\ Len(HandlersOf(connGen)) = 1
       /\ incoming.received = incoming.taken + incoming.missed + Len(incoming.frames)


----------------------------------------------------------------------------
(* Claims about the history reconciler (SpecHistSync).                     *)

\* a run of the history reconciler
HistSyncStep == \E get_ok \in BOOLEAN, okPushes \in 0..HistoryPage : HistorySync(get_ok, okPushes)

\* C24: the history reconciler is idempotent under re-run: a run that
\* starts directly after a successful run (one that returned Ok with every
\* push accepted), with neither store changed in between, inserts no row
\* into the local store and creates no row on the server.
C24_RerunInsertsNothing ==
    [][(SuccessfulRunJustEnded /\ HistSyncStep) =>
          /\ items' = items
          /\ synced_history' = synced_history]_vars

\* C24 happens: a run that pulled an item and pushed an item was followed
\* directly by a second run, which reached the server too
C24_Witness ==
    /\ lastHistSync.rerun /\ lastHistSync.ok
    /\ lastHistSync.first_pulled > 0 /\ lastHistSync.first_pushed > 0


----------------------------------------------------------------------------
(* Claims about who may redeem a link code (SpecLink).                     *)

\* C36: a link code created with the token of user U returns its key only
\* to a redeem request authenticated as U; a redeem of the code by another
\* user obtains no key and leaves the code in the map.
C36_KeyOnlyToTheCreatingUser ==
    [][(nlink' # nlink /\ lastLink'.op = "redeem" /\ is_six_digits(lastLink'.code)
          /\ link_codes[lastLink'.code].present) =>
             LET code == lastLink'.code
             IN  lastLink'.by # codeLog[code].by =>
                    /\ lastLink'.key = None
                    /\ link_codes'[code] = link_codes[code]]_vars


----------------------------------------------------------------------------
(* Claims about what becomes of a relay message (SpecClient).              *)

\* the messages of a sequence of frames
MsgsOf(frames) == {frames[i].msg : i \in 1..Len(frames)}
\* the elements of a sequence
Elems(q) == {q[i] : i \in 1..Len(q)}

\* the relay messages the client holds or has written: written to the
\* socket, accepted into the outbound channel, in the Offline Queue, or
\* drained by a flush that has not sent them yet
Kept ==
    MsgsOf(serverRecv) \cup MsgsOf(outgoing) \cup Elems(offline_queue)
       \cup (IF pc \in {"lock", "send"}
             THEN {messages[i] : i \in idx..Len(messages)} ELSE {})

\* the number of the local change a relay message was made for: the k-th
\* change carries the k-th ciphertext
ChangeOf(msg) ==
    CHOOSE k \in 1..Len(CipherNames) : msg.encrypted_blob = B64Encode(Encrypted(k))

\* C34: no relay message is silently lost: a message the client holds stays
\* held, on its way from the queue or the outbound channel to the socket,
\* until it is written, unless it is a slot_update and the Offline Queue
\* now holds a newer slot_update for its slot.
C34_NoMessageSilentlyLost ==
    [][\A m \in Kept :
          \/ m \in Kept'
          \/ /\ m.type = "slot_update"
             /\ \E e \in Elems(offline_queue') :
                   /\ IsSlotUpdateFor(e, m.slot_number)
                   /\ ChangeOf(e) > ChangeOf(m)]_vars

\* C33: for each slot, the slot_updates the server receives from the device
\* arrive in the order of the local changes: an older update for a slot is
\* never written to the socket after a newer one.
C33_OlderNeverAfterNewer ==
    \A i, j \in 1..Len(serverRecv) :
       (i < j /\ serverRecv[i].msg.type = "slot_update"
              /\ IsSlotUpdateFor(serverRecv[j].msg, serverRecv[i].msg.slot_number))
          => ChangeOf(serverRecv[i].msg) <= ChangeOf(serverRecv[j].msg)


----------------------------------------------------------------------------
(* The accounts of a session: who queued a change, whose connection sends  *)
(* it (SpecAccounts).                                                      *)

InitAccounts ==
    /\ \E a \in SessionAccounts \cup {None} : ClientInit(a, FALSE)
    /\ LocalInit /\ ServerInit /\ ReconInit /\ LinkInit
    /\ CryptoInit(1) /\ VaultInit /\ lastHistSync = NoHistSync
    /\ incoming = NewIncoming
    /\ owners = [NoOwners EXCEPT !.kept = TRUE]
    /\ tasks = NoTasks /\ pc2 = "idle"

NextAccounts ==
    \/ \E a \in SessionAccounts : Login(a)
    \/ Logout
    \/ ConnectWsStart
    \/ ConnectWsOpen
    \/ ConnectWsFail
    \/ \E n \in SlotNumbers : SaveToSlot(n)
    \/ FlushDrain
    \/ FlushLock
    \/ FlushSendOk

SpecAccounts == InitAccounts /\ [][NextAccounts]_vars

\* C35: a message enqueued in the Offline Queue while logged in as one
\* account is never sent over a WebSocket authenticated as another account:
\* every message the flush handed to the connection was queued under the
\* account whose token the connection was opened with
C35_QueueNeverCrossesAccounts ==
    \A i \in 1..Len(outgoing) :
       outgoing[i].via = "flush"
          => owners.change[ChangeOf(outgoing[i].msg)] = owners.conn


----------------------------------------------------------------------------
(* Claims about repeated runs of the slot reconciler (SpecRecon).          *)

\* a run of the reconciler during which no call fails
IdleRun == perform_full_slot_sync(MaxSlot + 2)

\* C37: the slot reconciler reaches a fixed point: a second run directly
\* after a run that returned Ok, with nothing changed in between, pushes
\* nothing, pulls nothing and returns 0
C37_SecondRunDoesNothing ==
    [][(lastSync' # lastSync /\ lastSync'.ok) =>
          /\ ~IdleRun'.err
          /\ IdleRun'.synced = 0
          /\ \A n \in SlotNumbers : IdleRun'.acts[n] = "none"]_vars


----------------------------------------------------------------------------
(* Claims about the frames the incoming handler takes (SpecIncoming).      *)

\* the handler takes the oldest message of its receiver
HandlerTook == incoming'.taken = incoming.taken + 1
TakenFrame == Head(incoming.frames)
\* a slot_updated frame whose blob does not decode, an error frame, or a
\* frame of a client-to-server type
Harmless(msg) ==
    \/ msg.type \in {"error", "slot_update", "history_push"}
    \/ msg.type = "slot_updated" /\ ~B64Decode(msg.encrypted_blob).ok

----------------------------------------------------------------------------
(* The relay seen from both ends: what a client does with a frame of the   *)
(* server, and what the server does with a frame of a server type.         *)

\* the frames of the server-to-client types
RelayedFrames ==
    {SlotUpdated(1, B64Encode(Encrypted(1)), "d2", 0),
     HistoryNew(101, B64Encode(Encrypted(1)), "hash_a", "d2"),
     ErrorMsg("Invalid message")}

\* a client with a restored session, an empty local store and a server
\* without connections
InitEcho ==
    /\ ClientInit("A", FALSE) /\ LocalInit /\ ServerInit /\ ReconInit /\ LinkInit /\ DeviceInit

NextEcho ==
    \/ ConnectWsStart
    \/ ConnectWsOpen
    \/ FlushDrain
    \/ \E msg \in RelayedFrames : RecvFrame(msg)
    \/ HandlerRecv
    \/ WsHandler(create_token("u1", "d1"))
    \/ WsHandler(create_token("u1", "d2"))
    \/ \E c \in ConnIds, msg \in RelayedFrames : WsServerTypeMessage(c, msg)

SpecEcho == InitEcho /\ [][NextEcho]_vars

\* the server's recv_task takes a frame of a server-to-client type
ServerTookRelayed == \E c \in ConnIds, msg \in RelayedFrames : WsServerTypeMessage(c, msg)

\* C38: no relay echo loop: when the client's handler applies a slot_updated
\* or history_new frame it sends nothing and queues nothing, and the server
\* neither stores nor publishes nor answers a slot_updated, history_new or
\* error frame it is sent
C38_NoEchoLoop ==
    [][/\ HandlerTook =>
             /\ outgoing' = outgoing
             /\ offline_queue' = offline_queue
             /\ qlog' = qlog
             /\ serverRecv' = serverRecv
       /\ ServerTookRelayed =>
             /\ synced_slots' = synced_slots
             /\ synced_history' = synced_history
             /\ user_channels' = user_channels
             /\ conns' = conns]_vars

\* the handler has applied a slot_updated frame, and the server has been
\* sent a frame of a server type while another device of the user was
\* subscribed
C38_Witness ==
    /\ incoming.last = "applied"
    /\ slots[1].content = Encrypted(1)
    /\ lastResp.op = "ws_ignored"
    /\ conns["d1"].used /\ conns["d2"].used
    /\ \A c \in ConnIds : conns[c].rx = <<>> /\ conns[c].direct = <<>>
    /\ synced_slots[<<"u1", 1>>] = NoRow


----------------------------------------------------------------------------
(* Claims about the end of a server connection (FairSpecServer).           *)

\* C40: when a WebSocket connection of the server ends, because the client
\* closed it or because the forwarding task stopped, both tasks of the
\* connection eventually terminate and its broadcast receiver is dropped,
\* also when no further frame is published for the user
C40_BothTasksEnd ==
    \A c \in ConnIds :
       (conns[c].used /\ (~conns[c].inb \/ ~conns[c].fwd))
          ~> (~conns[c].inb /\ ~conns[c].fwd)


----------------------------------------------------------------------------
(* The tasks of the client's connections under logout and under two        *)
(* callers of connect_ws.                                                  *)

\* the connections a behaviour of SpecConnect can make
ConnNumbers == 1..(MaxConnects + 1)

\* a client with a restored session and nothing queued
InitConnect ==
    /\ ClientInit("A", FALSE) /\ LocalInit /\ ServerInit /\ ReconInit /\ LinkInit /\ DeviceInit

NextConnect ==
    \/ ConnectWsStart
    \/ ConnectWsOpen
    \/ ConnectWsFail
    \/ FlushDrain
    \/ ConnectWs2Start
    \/ ConnectWs2Open
    \/ \E c \in ConnNumbers : ReaderEnd(c)
    \/ \E i \in ConnNumbers : HandlerEnd(i)

SpecConnect == InitConnect /\ [][NextConnect]_vars

\* the connection the manager holds, if any
HeldConnections == IF ws # None THEN {connGen} ELSE {}
\* the connections all of whose tasks run
LiveConnections ==
    {g \in ConnNumbers :
        g \in tasks.writers /\ g \in tasks.readers /\ Len(HandlersOf(g)) > 0}

\* C39: the manager holds at most one client handle, every connection it no
\* longer holds has been shut down (its writer has closed the stream and
\* ended), also under repeated calls and two concurrent callers of
\* connect_ws, and once the calls have completed at most one connection has
\* a live reader, writer and handler
C39_OneLiveConnection ==
    /\ Cardinality(HeldConnections) <= 1
    /\ tasks.writers \subseteq HeldConnections
    /\ (pc = "idle" /\ pc2 = "idle") => Cardinality(LiveConnections) <= 1

\* both callers are done, the second having stored its client over the
\* handle the first had stored; the reader and the handler of the first
\* connection still run
C39_Witness ==
    /\ pc = "idle" /\ pc2 = "idle"
    /\ ws # None /\ connGen = 2
    /\ 1 \in tasks.dropped
    /\ 1 \in tasks.readers /\ Len(HandlersOf(1)) > 0
    /\ LiveConnections = {2}


\* the tasks of the client are tokio tasks: a flush that holds the read
\* guard goes on sending, and a handler whose channel has closed ends; when
\* a reader ends is up to the peer and the network
FairSpecSession ==
    /\ SpecSession
    /\ WF_vars(FlushSendOk)
    /\ WF_vars(\E i \in 1..MaxConnects : HandlerEnd(i))

\* C32: after logout, or any disconnect of the WebSocket client, the writer
\* task of the connection closes the stream and exits, its reader task
\* eventually terminates and its incoming handler eventually exits; logout
\* never waits for ever for the connection's lock
C32_TasksEndAfterDisconnect ==
    /\ \A g \in 1..MaxConnects :
          (g <= connGen /\ g \notin HeldConnections)
             ~> (/\ g \notin tasks.writers
                 /\ g \notin tasks.readers
                 /\ Len(HandlersOf(g)) = 0)
    /\ (pc = "send") ~> (pc # "send")

=============================================================================
